---- MODULE Spec2Model ----
(***************************************************************************)
(* Model of the athena orchestrator (src/src/orchestrator/graph.py): the   *)
(* LangGraph workflow intake -> plan -> execute -> review -> synthesize,   *)
(* with the thread pool of _execute_parallel_sync unfolded into one step   *)
(* per worker event.                                                       *)
(***************************************************************************)
EXTENDS Integers, Sequences, FiniteSets, TLC

\* ------------------------------------------------------------------------
\* Bounds of the model (not program constants)
\* ------------------------------------------------------------------------

\* Review passes after which the model stops following a run (the graph
\* itself has no iteration cap; only the graph library's recursion limit,
\* which lies beyond this bound, ends a cycling run, with an exception).
MaxIterations == 5

\* Largest token_budget handed to run_task (budgets 1..MaxBudget, or none).
MaxBudget == 2

\* Longest list of subtasks handed to execute_plan, apart from the one list
\* that is longer than MAX_SUBTASKS_PER_EXECUTION.
MaxBridgeSubtasks == 2

\* Failed health checks in a row the model follows the poller for; the
\* 1025th is the first whose backoff factor is no float (FloatMaxExponent).
MaxFailures == 1026

\* Runs started on the registry of run_state.py.
MaxRuns == 3

\* Arguments after the program in a command sent to the runner's /cmd.
MaxArgs == 3

\* ------------------------------------------------------------------------
\* Program constants
\* ------------------------------------------------------------------------

\* execution_bridge.py:52
MAX_SUBTASKS_PER_EXECUTION == 10

\* graph.py:34
_MAX_PARALLEL_WORKERS == 4

\* graph.py:424  ("max_revisions": 2 in _initial_state)
DefaultMaxRevisions == 2

\* token_budget=None of build_graph / run_task (no budget limit)
NoBudget == -1

\* poller.py:21-23, in seconds
_BASE_INTERVAL == 10

_MAX_INTERVAL == 300

_BACKOFF_FACTOR == 2

\* _BACKOFF_FACTOR ** n (poller.py:139) is a float power: 2.0 ** n raises
\* OverflowError from n = 1024 on.
FloatMaxExponent == 1024

\* Keys of the dict returned by _create_agents (graph.py:56-78) that are
\* used as executors.
AgentTypes == {"manager", "frontend", "backend", "tester"}

\* result.output.startswith("Error").  An output is abstracted to what the
\* code inspects: "" (empty), "Error" (a text starting with "Error"), "ok"
\* (any other text).
IsError(o) == o = "Error"

\* What review.get("verdict", "approve") can yield: review_output returns the
\* parsed JSON of the model's answer unvalidated, so besides the three
\* documented verdicts any other string ("other") can arrive.
ReviewerVerdicts == {"approve", "revise", "redo", "other"}

\* review.get("feedback", "")
Feedbacks == {"fb"}

\* Outcomes of agent.chat inside _execute_single: a returned text, or an
\* exception ("raise").
ChatOutcomes == {"ok", "", "Error", "raise"}

\* ------------------------------------------------------------------------
\* Plans the Planner may return (manager.decompose_task)
\* ------------------------------------------------------------------------

St(i, a, d) == [id |-> i, agent |-> a, depends_on |-> d]

PlanSingle == << St(1, "backend", {}) >>

\* Scenario B: subtask 2 depends on subtask 1.
PlanChain == << St(1, "backend", {}), St(2, "frontend", {1}) >>

\* Scenario A: three independent subtasks.
PlanThree ==
  << St(1, "backend", {}), St(2, "frontend", {}), St(3, "tester", {}) >>

\* A capability tag for which no agent exists.
PlanNoAgent == << St(1, "designer", {}) >>

\* The plans followed through whole runs.
Plans == {PlanSingle, PlanChain, PlanThree, PlanNoAgent}

\* More independent subtasks than the pool has workers; followed through
\* one batch (SpecPool).
PlanWide ==
  << St(1, "backend", {}), St(2, "frontend", {}), St(3, "tester", {}),
     St(4, "backend", {}), St(5, "designer", {}) >>

AllIds == 1..5

\* ------------------------------------------------------------------------
\* State
\* ------------------------------------------------------------------------

VARIABLES
  phase,          \* WorkflowState.phase
  subtasks,       \* WorkflowState.subtasks
  results,        \* WorkflowState.results : id -> SubtaskResult
  ready_queue,    \* WorkflowState.ready_queue
  max_revisions,  \* WorkflowState.max_revisions
  final_output,   \* WorkflowState.final_output (ids whose output was merged)
  errors,         \* WorkflowState.errors
  stop_event,     \* threading.Event.is_set() of the run's stop signal
  budget,         \* token budget still unspent, or NoBudget
  futures,        \* per subtask: state of its future in the current pool
  pool_open,      \* inside the "with ThreadPoolExecutor" block
  iterations,     \* history: review passes completed
  skipped,        \* history: a batch was skipped on stop / budget
  reviewed,       \* history: the subtasks the Reviewer was called for in the
                  \* review pass just made (empty once the run moves on)
  undocumented,   \* history: the Reviewer gave a verdict other than
                  \* approve / revise / redo
  \* ExecutionBridge.execute_plan (execution_bridge.py)
  args,           \* is_self_edit, self.auto_pr, auto_approve, subtasks
  on_progress,    \* the on_progress argument
  pc,             \* position of execute_plan
  loop_i,         \* subtasks the loop has processed (enumerate's i)
  all_success,    \* local all_success
  result,         \* the ExecutionResult being filled
  calls,          \* history: the calls made on the RunnerClient, in order
  obs,            \* history: what the Runner answered to the calls the
                  \* claims are about
  twin,           \* a second call of execute_plan, run side by side with
                  \* the first to compare the two (SpecProgress)
  \* RunnerPoller (poller.py)
  poller,         \* base_interval, max_interval, _running, and where the
                  \* task running _poll_loop is
  runner_state,   \* RunnerPoller.state : RunnerState
  last_health,    \* history: how the last health check of the poller ended
  \* the /runner routes of the control plane (runner_routes.py)
  proxy,          \* history: the last request served: the route, the
                  \* cached state.online it saw, its status, and the calls
                  \* it made on the RunnerClient
  \* RunnerClient (client.py)
  client_call,    \* a call of a client method and what the network does
  client_result,  \* how the call ended
  \* the registry of active runs (run_state.py)
  _active_runs,   \* the run ids that are keys of _active_runs; the value of
                  \* a key is the Event made for it by start_run
  signal,         \* per run id: is_set() of the Event made for it
  minted,         \* history: the run ids start_run has returned
  stop_call,      \* the call of stop_run in progress or last made (again:
                  \* the signal it set was set already)
  run_log,        \* history: the run ids end_run was called with, and
                  \* those stop_run returned True for
  current_run_id, \* app.state.current_run_id (api/routes.py), NoRun for
                  \* None
  \* the runner's own API (runner/endpoints.py)
  host_request,   \* a request to /cmd or /git/push-pr
  host_response,  \* its status, and what the endpoint did, in order
  auth            \* runner_settings.runner_token, the X-Runner-Token
                  \* header of the request, and (history) whether the
                  \* middleware called call_next (runner/app.py)

orchestrator_vars ==
  << phase, subtasks, results, ready_queue, max_revisions, final_output,
     errors, stop_event, budget, futures, pool_open, iterations, skipped,
     undocumented, reviewed >>

bridge_vars ==
  << args, on_progress, pc, loop_i, all_success, result, calls, obs >>

poller_vars == << poller, runner_state, last_health >>

proxy_vars == << proxy >>

client_vars == << client_call, client_result >>

registry_vars ==
  << _active_runs, signal, minted, stop_call, run_log, current_run_id >>

host_vars == << host_request, host_response, auth >>

\* The services around the orchestrator and the bridge.
services_vars ==
  << poller_vars, proxy_vars, client_vars, registry_vars, host_vars >>

\* What a step of the orchestrator leaves alone, a step of the bridge, and
\* a step of each service.
not_orchestrator_vars == << bridge_vars, twin, services_vars >>

not_bridge_vars == << orchestrator_vars, services_vars >>

not_poller_vars ==
  << orchestrator_vars, bridge_vars, twin, proxy_vars, client_vars,
     registry_vars, host_vars >>

not_proxy_vars ==
  << orchestrator_vars, bridge_vars, twin, poller_vars, client_vars,
     registry_vars, host_vars >>

not_client_vars ==
  << orchestrator_vars, bridge_vars, twin, poller_vars, proxy_vars,
     registry_vars, host_vars >>

not_host_vars ==
  << orchestrator_vars, bridge_vars, twin, poller_vars, proxy_vars,
     client_vars, registry_vars >>

not_registry_vars ==
  << orchestrator_vars, bridge_vars, twin, poller_vars, proxy_vars,
     client_vars, host_vars >>

vars == << orchestrator_vars, bridge_vars, twin, services_vars >>

\* ------------------------------------------------------------------------
\* Helpers
\* ------------------------------------------------------------------------

Min(a, b) == IF a <= b THEN a ELSE b

Range(s) == { s[i] : i \in 1..Len(s) }

Ids == { subtasks[i].id : i \in 1..Len(subtasks) }

\* Sequence of the ids of subtasks, in plan order (the iteration order of the
\* results dict, which planning_node fills in plan order).
IdSeq == [ i \in 1..Len(subtasks) |-> subtasks[i].id ]

SubtaskOf(sid) == CHOOSE st \in Range(subtasks) : st.id = sid

\* SubtaskResult(subtask_id, agent_type, description) with its defaults
NewSubtaskResult ==
  [output |-> "", review_verdict |-> "pending", review_feedback |-> "",
   attempts |-> 0]

\* One call recorded by the tracker lowers what _budget_remaining returns.
\* The code only tests the value for <= 0, so it is clamped at 0.
Spend(b, n) == IF b = NoBudget THEN NoBudget
               ELSE IF b - n < 0 THEN 0 ELSE b - n

NoFutures == [ i \in AllIds |-> "none" ]

Running == { s \in AllIds : futures[s] = "running" }

Queued == { s \in AllIds : futures[s] = "queued" }

\* ------------------------------------------------------------------------
\* ExecutionBridge: data
\* ------------------------------------------------------------------------

\* subtask.get("description", ""), abstracted to what the code inspects:
\* empty, a text naming one of _SELF_EDIT_PROTECTED_FILES, any other text.
Descriptions == {"", "plain", "protected"}

\* The lists of subtasks handed to execute_plan: every list of at most
\* MaxBridgeSubtasks descriptions, and one list longer than the cap.  A
\* subtask's id is its position in the list.
BridgeSubtasks ==
  UNION { [ 1..n -> Descriptions ] : n \in 0..MaxBridgeSubtasks }
  \cup { [ k \in 1..(MAX_SUBTASKS_PER_EXECUTION + 1) |-> "plain" ] }

\* ExecutionResult() with its defaults; git_status = {} is dirty = -1
\* (result.git_status.get("dirty", 0) then yields 0, see Dirty).
NewExecutionResult ==
  [branch |-> "", subtask_results |-> << >>, dirty |-> -1, pr_url |-> FALSE,
   success |-> FALSE, error |-> ""]

\* Nothing observed yet.  commit, checkout and merge_exit tell how the
\* local commit, the checkout of main and the merge that follow a failed
\* push ended (see Ended).
NoObs == [health |-> "none", dirtyCount |-> -1, status |-> "none",
          push |-> "none", merge |-> "none", commit |-> "none",
          checkout |-> "none", merge_exit |-> "none"]

\* The phases _progress is called with (execution_bridge.py:133-381).
Phases ==
  {"preflight", "branch", "subtask", "testing", "pushing", "merging",
   "committing", "cleanup", "done"}

\* on_progress = None
NoCallback == [set |-> FALSE, raises |-> {}]

\* The on_progress arguments: none, or a callable described by the phases
\* at which it raises an Exception (never, at one phase, at every phase).
Callbacks ==
  {NoCallback}
  \cup { [set |-> TRUE, raises |-> R] :
           R \in {{}, Phases} \cup { {p} : p \in Phases } }

\* The second call of execute_plan before it is used: the values of its
\* variables, whose turn it is, and what the Runner did last.
NoTwin ==
  [turn |-> 0, pending |-> [kind |-> "none", dirtyCount |-> -1],
   on_progress |-> NoCallback, pc |-> "idle", loop_i |-> 0,
   all_success |-> TRUE, result |-> NewExecutionResult, calls |-> << >>,
   obs |-> NoObs]

\* No call of execute_plan is in progress.
BridgeIdle ==
  /\ args = [is_self_edit |-> FALSE, auto_pr |-> TRUE, auto_approve |-> FALSE,
             subtasks |-> << >>]
  /\ on_progress = NoCallback
  /\ pc = "idle"
  /\ loop_i = 0
  /\ all_success = TRUE
  /\ result = NewExecutionResult
  /\ calls = << >>
  /\ obs = NoObs
  /\ twin = NoTwin

\* ------------------------------------------------------------------------
\* Services: data
\* ------------------------------------------------------------------------

\* RunnerState() (poller.py:29-40): current_interval starts at
\* _BASE_INTERVAL, whatever interval the poller is given.
NewRunnerState ==
  [online |-> FALSE, consecutive_failures |-> 0, reconnect_attempts |-> 0,
   current_interval |-> _BASE_INTERVAL]

\* RunnerPoller(client, interval, max_interval) (poller.py:60-71); task is
\* where the task running _poll_loop is: "none" before start, "checking"
\* inside _check_once, "sleeping" in asyncio.sleep, "cancelled" by stop,
\* "dead" once an exception has left _poll_loop.
NewRunnerPoller(interval, max_interval) ==
  [base_interval |-> interval, max_interval |-> max_interval,
   _running |-> FALSE, task |-> "none"]

\* A poller made with the defaults and not started.
PollerIdle ==
  /\ poller = NewRunnerPoller(_BASE_INTERVAL, _MAX_INTERVAL)
  /\ runner_state = NewRunnerState
  /\ last_health = "none"

\* No request served yet.
ProxyIdle ==
  proxy = [route |-> "none", online |-> FALSE, status |-> 0, sent |-> << >>]

\* How a call of a client method ended: it returned, or raised
\* RunnerOfflineError, RunnerError(status_code, detail), or something else.
ClientResult(kind, status_code, detail) ==
  [kind |-> kind, status_code |-> status_code, detail |-> detail]

\* No call of the client is looked at.
ClientIdle ==
  /\ client_call = [method |-> "none", transport |-> "none", status |-> 0,
                    body |-> "none"]
  /\ client_result = ClientResult("none", 0, "")

\* The run ids uuid.uuid4().hex[:8] yields (run_state.py:19), taken to be
\* distinct from one call of start_run to the next.
RunIds == 1..MaxRuns

\* No run id, no Event.
NoRun == 0

\* The module as imported: no run registered (run_state.py:13).
RegistryIdle ==
  /\ _active_runs = {}
  /\ signal = [ r \in RunIds |-> FALSE ]
  /\ minted = {}
  /\ stop_call = [id |-> NoRun, stage |-> "none", ret |-> FALSE,
                  again |-> FALSE]
  /\ run_log = [ended |-> {}, stopped |-> {}]
  /\ current_run_id = NoRun

\* A branch name as validate_branch_for_push sees it: its letters in lower
\* case, whether some are in upper case, whether white space surrounds it.
Branch(name, upper, padded) ==
  [name |-> name, upper |-> upper, padded |-> padded]

\* No request to the runner's API.
NoHostRequest ==
  [route |-> "none", command |-> << >>, branch |-> Branch("", FALSE, FALSE),
   project_known |-> FALSE]

HostResponse(status, effects) == [status |-> status, effects |-> effects]

\* The headers of a request, as far as X-Runner-Token goes.
NoHeader == [present |-> FALSE, value |-> ""]

Header(v) == [present |-> TRUE, value |-> v]

\* No secret configured (runner_token: str = "", runner/config.py:18) and
\* a request without the header.
NoAuth == [runner_token |-> "", header |-> NoHeader, called_next |-> FALSE]

HostIdle ==
  /\ host_request = NoHostRequest
  /\ host_response = HostResponse(0, << >>)
  /\ auth = NoAuth

ServicesIdle ==
  /\ PollerIdle
  /\ ProxyIdle
  /\ ClientIdle
  /\ RegistryIdle
  /\ HostIdle

\* ------------------------------------------------------------------------
\* Nodes
\* ------------------------------------------------------------------------

\* _initial_state
Init ==
  /\ phase = "intake"
  /\ subtasks = << >>
  /\ results = << >>
  /\ ready_queue = << >>
  /\ max_revisions = DefaultMaxRevisions
  /\ final_output = {}
  /\ errors = << >>
  /\ stop_event = FALSE
  /\ budget \in {NoBudget} \cup 1..MaxBudget
  /\ futures = NoFutures
  /\ pool_open = FALSE
  /\ iterations = 0
  /\ skipped = FALSE
  /\ undocumented = FALSE
  /\ reviewed = {}
  /\ BridgeIdle
  /\ ServicesIdle

intake_node ==
  /\ phase = "intake"
  /\ phase' = "planning"
  /\ UNCHANGED << subtasks, results, ready_queue, max_revisions, final_output,
                  errors, stop_event, budget, futures, pool_open, iterations,
                  skipped, undocumented, reviewed,
                  not_orchestrator_vars >>

\* Initially ready: the subtasks without dependencies, in plan order.
InitialReady(plan) ==
  LET ids == [ i \in 1..Len(plan) |-> plan[i].id ]
      NoDeps(sid) == \E i \in 1..Len(plan) :
                        plan[i].id = sid /\ plan[i].depends_on = {}
  IN SelectSeq(ids, NoDeps)

planning_node ==
  /\ phase = "planning"
  /\ \E plan \in Plans :
       /\ subtasks' = plan
       /\ results' = [ sid \in { plan[i].id : i \in 1..Len(plan) }
                         |-> NewSubtaskResult ]
       /\ ready_queue' = InitialReady(plan)
  /\ phase' = "executing"
  /\ budget' = Spend(budget, 1)
  /\ UNCHANGED << max_revisions, final_output, errors, stop_event, futures,
                  pool_open, iterations, skipped, undocumented, reviewed,
                  not_orchestrator_vars >>

\* ------------------------------------------------------------------------
\* executing_node / _execute_parallel_sync / _execute_single
\* ------------------------------------------------------------------------

\* Variant: the budget is not looked at.
BudgetExhausted_Never == FALSE

\* budget_fn() returned a value <= 0
BudgetExhausted == budget # NoBudget /\ budget <= 0

\* executing_node, "if not ready_queue" (graph.py:244-245)
ExecuteEmpty ==
  /\ phase = "executing"
  /\ ~pool_open
  /\ iterations < MaxIterations
  /\ ready_queue = << >>
  /\ phase' = "reviewing"
  /\ ready_queue' = << >>
  /\ futures' = NoFutures
  /\ reviewed' = {}
  /\ UNCHANGED << subtasks, results, max_revisions, final_output, errors,
                  stop_event, budget, pool_open, iterations,
                  skipped, undocumented,
                  not_orchestrator_vars >>

\* executing_node when _execute_parallel_sync returns results untouched
\* because the stop event is set or the budget is spent (graph.py:131-137)
ExecuteSkip ==
  /\ phase = "executing"
  /\ ~pool_open
  /\ iterations < MaxIterations
  /\ ready_queue # << >>
  /\ stop_event \/ BudgetExhausted
  /\ phase' = "reviewing"
  /\ ready_queue' = << >>
  /\ futures' = NoFutures
  /\ skipped' = TRUE
  /\ reviewed' = {}
  /\ UNCHANGED << subtasks, results, max_revisions, final_output, errors,
                  stop_event, budget, pool_open, iterations, undocumented,
                  not_orchestrator_vars >>

\* Variant: the pool is made as wide as the batch.
n_workers_Unbounded == Len(ready_queue)

\* n_workers = min(_MAX_PARALLEL_WORKERS, len(ready_queue))
n_workers == Min(_MAX_PARALLEL_WORKERS, Len(ready_queue))

\* _execute_parallel_sync: the pool is created and every ready subtask is
\* submitted (graph.py:139-147)
ExecuteSubmit ==
  /\ phase = "executing"
  /\ ~pool_open
  /\ iterations < MaxIterations
  /\ ready_queue # << >>
  /\ ~(stop_event \/ BudgetExhausted)
  /\ pool_open' = TRUE
  /\ futures' = [ s \in AllIds |->
                    IF s \in Range(ready_queue) /\ s \in DOMAIN results
                    THEN "queued" ELSE "none" ]
  /\ reviewed' = {}
  /\ UNCHANGED << phase, subtasks, results, ready_queue, max_revisions,
                  final_output, errors, stop_event, budget, iterations,
                  skipped, undocumented,
                  not_orchestrator_vars >>

\* The work queue of the pool is first-in first-out: the next future to run
\* is the first one of the batch that is still queued.
NextQueued ==
  LET i == CHOOSE i \in 1..Len(ready_queue) :
             /\ futures[ready_queue[i]] = "queued"
             /\ \A j \in 1..(i - 1) : futures[ready_queue[j]] # "queued"
  IN ready_queue[i]

\* A pool thread takes the next queued future: at most n_workers threads.
WorkerStart ==
  /\ pool_open
  /\ Queued # {}
  /\ Cardinality(Running) < n_workers
  /\ futures' = [futures EXCEPT ![NextQueued] = "running"]
  /\ UNCHANGED << phase, subtasks, results, ready_queue, max_revisions,
                  final_output, errors, stop_event, budget, pool_open,
                  iterations, skipped, undocumented, reviewed,
                  not_orchestrator_vars >>

\* _execute_single on one SubtaskResult, for one outcome of agent.chat
\* (the outcome is not looked at when no agent of the type exists).
ExecuteSingle(r, agent_type, outcome) ==
  IF agent_type \notin AgentTypes
  THEN [r EXCEPT !.output = "Error", !.review_verdict = "redo"]
  ELSE IF outcome = "raise"
  THEN [r EXCEPT !.output = "Error", !.review_verdict = "redo"]
  ELSE [r EXCEPT !.output = outcome, !.attempts = r.attempts + 1]

\* Whether _execute_single made a call that the tracker recorded.
CallsRecorded(agent_type, outcome) ==
  IF agent_type \in AgentTypes /\ outcome # "raise" THEN 1 ELSE 0

\* A running _execute_single returns; as_completed stores its result.
WorkerFinish(sid, outcome) ==
  /\ pool_open
  /\ futures[sid] = "running"
  /\ results' = [results EXCEPT
                   ![sid] = ExecuteSingle(@, SubtaskOf(sid).agent, outcome)]
  /\ futures' = [futures EXCEPT ![sid] = "done"]
  /\ budget' = Spend(budget, CallsRecorded(SubtaskOf(sid).agent, outcome))
  /\ UNCHANGED << phase, subtasks, ready_queue, max_revisions, final_output,
                  errors, stop_event, pool_open, iterations,
                  skipped, undocumented, reviewed,
                  not_orchestrator_vars >>

\* Variant: the node returns as soon as one future has completed.
BatchDone_FirstCompleted == \E s \in AllIds : futures[s] = "done"

\* Variant: a failed future ends the batch at once.
BatchDone_AbortOnError ==
  \/ \A s \in AllIds : futures[s] \in {"none", "done"}
  \/ \E s \in AllIds : /\ futures[s] = "done"
                        /\ IsError(results[s].output)
                        /\ results[s].review_verdict = "redo"

\* The batch is over when as_completed has yielded every future.
BatchDone == \A s \in AllIds : futures[s] \in {"none", "done"}

\* The "with" block ends and executing_node returns (graph.py:159, 264)
ExecuteJoin ==
  /\ pool_open
  /\ BatchDone
  /\ pool_open' = FALSE
  /\ phase' = "reviewing"
  /\ ready_queue' = << >>
  /\ UNCHANGED << subtasks, results, max_revisions, final_output, errors,
                  stop_event, budget, futures, iterations,
                  skipped, undocumented, reviewed,
                  not_orchestrator_vars >>

\* ------------------------------------------------------------------------
\* reviewing_node
\* ------------------------------------------------------------------------

\* Variant: approved subtasks are not passed over.
ReviewSkips_Never(r) == FALSE

\* graph.py:292-294: an approved subtask with a usable output is passed over.
ReviewSkips(r) ==
  /\ r.review_verdict # "pending"
  /\ r.output # ""
  /\ ~IsError(r.output)
  /\ r.review_verdict \in {"approve"}

\* Variant: only an empty output counts as unusable.
NoUsableOutput_EmptyOnly(r) == r.output = ""

\* graph.py:296: "if not result.output or result.output.startswith('Error')"
NoUsableOutput(r) == r.output = "" \/ IsError(r.output)

\* The Reviewer is called for the subtask (graph.py:306).
ReviewerCalled(r) == ~ReviewSkips(r) /\ ~NoUsableOutput(r)

\* graph.py:312-314: a revise/redo verdict at the revision cap is replaced.
ForceApprove(v, attempts, maxrev) ==
  IF v \in {"revise", "redo"} /\ attempts >= maxrev THEN "approve" ELSE v

\* The body of the loop of reviewing_node for one SubtaskResult, v and fb
\* being what the Reviewer answers if it is called.
ReviewOne(r, v, fb, maxrev) ==
  IF ReviewSkips(r) THEN r
  ELSE IF NoUsableOutput(r)
  THEN IF r.attempts < maxrev
       THEN [r EXCEPT !.review_verdict = "redo"]
       ELSE [r EXCEPT !.review_verdict = "approve"]
  ELSE [r EXCEPT !.review_verdict = ForceApprove(v, r.attempts, maxrev),
                 !.review_feedback = fb]

\* Variant: only a redo verdict sends a subtask back.
NeedsRevision_RedoOnly(r, rnew, maxrev) ==
  IF ReviewSkips(r) THEN FALSE
  ELSE IF NoUsableOutput(r) THEN r.attempts < maxrev
  ELSE rnew.review_verdict \in {"redo"}

\* Whether the loop body appended the subtask to needs_revision
\* (graph.py:299 and 316-317); rnew is the record after the loop body.
NeedsRevision(r, rnew, maxrev) ==
  IF ReviewSkips(r) THEN FALSE
  ELSE IF NoUsableOutput(r) THEN r.attempts < maxrev
  ELSE rnew.review_verdict \in {"revise", "redo"}

\* graph.py:321
AllApproved(res) == \A sid \in DOMAIN res : res[sid].review_verdict = "approve"

\* graph.py:328
ApprovedIds(res) == { sid \in DOMAIN res : res[sid].review_verdict = "approve" }

\* graph.py:331-337: a subtask not approved and not queued for revision is
\* appended when it has dependencies and all of them are approved.
DepsNowMet(res, needs, st) ==
  /\ st.id \notin ApprovedIds(res)
  /\ st.id \notin Range(needs)
  /\ st.depends_on # {}
  /\ st.depends_on \subseteq ApprovedIds(res)

\* graph.py:323-337: the ready queue handed to the next batch.
NextReady(res, needs, plan) ==
  IF AllApproved(res) THEN << >>
  ELSE LET ids == [ i \in 1..Len(plan) |-> plan[i].id ]
           Met(sid) == \E i \in 1..Len(plan) :
                          plan[i].id = sid /\ DepsNowMet(res, needs, plan[i])
       IN needs \o SelectSeq(ids, Met)

\* Variant: one approved subtask is enough to synthesize.
NextPhase_Any(res) ==
  IF \E sid \in DOMAIN res : res[sid].review_verdict = "approve"
  THEN "synthesizing" ELSE "executing"

\* graph.py:323-327
NextPhase(res) == IF AllApproved(res) THEN "synthesizing" ELSE "executing"

reviewing_node ==
  /\ phase = "reviewing"
  /\ \E rv \in [ { sid \in Ids : ReviewerCalled(results[sid]) }
                   -> ReviewerVerdicts \X Feedbacks ] :
       LET Answer(sid) == IF sid \in DOMAIN rv THEN rv[sid]
                          ELSE << "approve", "" >>
           res == [ sid \in Ids |->
                      ReviewOne(results[sid], Answer(sid)[1], Answer(sid)[2],
                                max_revisions) ]
           Needs(sid) == NeedsRevision(results[sid], res[sid], max_revisions)
           needs_revision == SelectSeq(IdSeq, Needs)
       IN /\ results' = res
          /\ phase' = NextPhase(res)
          /\ ready_queue' = NextReady(res, needs_revision, subtasks)
          /\ budget' = Spend(budget, Cardinality(DOMAIN rv))
          /\ undocumented' =
               (undocumented \/ \E sid \in DOMAIN rv : rv[sid][1] = "other")
          /\ reviewed' = DOMAIN rv
  /\ iterations' = iterations + 1
  /\ UNCHANGED << subtasks, max_revisions, final_output, errors, stop_event,
                  futures, pool_open, skipped,
                  not_orchestrator_vars >>

\* ------------------------------------------------------------------------
\* synthesizing_node, stop requests
\* ------------------------------------------------------------------------

\* graph.py:346-350: the outputs handed to the Synthesizer
AgentOutputs(res) ==
  { sid \in DOMAIN res : res[sid].output # "" /\ ~IsError(res[sid].output) }

synthesizing_node ==
  /\ phase = "synthesizing"
  /\ phase' = "done"
  /\ final_output' = AgentOutputs(results)
  /\ budget' = Spend(budget, 1)
  /\ reviewed' = {}
  /\ UNCHANGED << subtasks, results, ready_queue, max_revisions, errors,
                  stop_event, futures, pool_open, iterations,
                  skipped, undocumented,
                  not_orchestrator_vars >>

\* run_state.stop_run: the stop event of the run in flight is set.
RequestStop ==
  /\ phase # "done"
  /\ ~stop_event
  /\ stop_event' = TRUE
  /\ UNCHANGED << phase, subtasks, results, ready_queue, max_revisions,
                  final_output, errors, budget, futures, pool_open,
                  iterations, skipped, undocumented, reviewed,
                  not_orchestrator_vars >>

\* ------------------------------------------------------------------------
\* Specification
\* ------------------------------------------------------------------------

Next ==
  \/ intake_node
  \/ planning_node
  \/ ExecuteEmpty
  \/ ExecuteSkip
  \/ ExecuteSubmit
  \/ WorkerStart
  \/ \E sid \in AllIds, outcome \in ChatOutcomes : WorkerFinish(sid, outcome)
  \/ ExecuteJoin
  \/ reviewing_node
  \/ synthesizing_node
  \/ RequestStop

Spec == Init /\ [][Next]_vars

\* One batch of a wide plan: the state planning_node leaves for PlanWide,
\* then executing_node with its pool.
InitPool ==
  /\ phase = "executing"
  /\ subtasks = PlanWide
  /\ results = [ sid \in { PlanWide[i].id : i \in 1..Len(PlanWide) }
                   |-> NewSubtaskResult ]
  /\ ready_queue = InitialReady(PlanWide)
  /\ max_revisions = DefaultMaxRevisions
  /\ final_output = {}
  /\ errors = << >>
  /\ stop_event = FALSE
  /\ budget \in { Spend(b, 1) : b \in {NoBudget} \cup 1..MaxBudget }
  /\ futures = NoFutures
  /\ pool_open = FALSE
  /\ iterations = 0
  /\ skipped = FALSE
  /\ undocumented = FALSE
  /\ reviewed = {}
  /\ BridgeIdle
  /\ ServicesIdle

NextPool ==
  \/ ExecuteSkip
  \/ ExecuteSubmit
  \/ WorkerStart
  \/ \E sid \in AllIds, outcome \in ChatOutcomes : WorkerFinish(sid, outcome)
  \/ ExecuteJoin
  \/ RequestStop

SpecPool == InitPool /\ [][NextPool]_vars

\* ------------------------------------------------------------------------
\* aexecuting_node / _execute_parallel_async
\* ------------------------------------------------------------------------

\* aexecuting_node, "if not ready_queue" (graph.py:272-273)
AExecuteEmpty == ExecuteEmpty

\* _execute_parallel_async: the pool is created and every ready subtask is
\* handed to run_in_executor (graph.py:169-179).  The function takes no stop
\* event and no budget and tests neither.
AExecuteSubmit ==
  /\ phase = "executing"
  /\ ~pool_open
  /\ iterations < MaxIterations
  /\ ready_queue # << >>
  /\ pool_open' = TRUE
  /\ futures' = [ s \in AllIds |->
                    IF s \in Range(ready_queue) /\ s \in DOMAIN results
                    THEN "queued" ELSE "none" ]
  /\ reviewed' = {}
  /\ UNCHANGED << phase, subtasks, results, ready_queue, max_revisions,
                  final_output, errors, stop_event, budget, iterations,
                  skipped, undocumented,
                  not_orchestrator_vars >>

\* asyncio.gather has returned every item, the "with" block ends, the items
\* are stored and aexecuting_node returns (graph.py:180-189, 282-283)
AExecuteJoin == ExecuteJoin

\* The plans followed through runs of the asynchronous batch execution.
PlansAsync == {PlanSingle, PlanChain}

\* The state planning_node leaves for one of PlansAsync.
InitAsync ==
  /\ phase = "executing"
  /\ \E plan \in PlansAsync :
       /\ subtasks = plan
       /\ results = [ sid \in { plan[i].id : i \in 1..Len(plan) }
                        |-> NewSubtaskResult ]
       /\ ready_queue = InitialReady(plan)
  /\ max_revisions = DefaultMaxRevisions
  /\ final_output = {}
  /\ errors = << >>
  /\ stop_event = FALSE
  /\ budget \in { Spend(b, 1) : b \in {NoBudget} \cup 1..MaxBudget }
  /\ futures = NoFutures
  /\ pool_open = FALSE
  /\ iterations = 0
  /\ skipped = FALSE
  /\ undocumented = FALSE
  /\ reviewed = {}
  /\ BridgeIdle
  /\ ServicesIdle

\* The workflow with aexecuting_node as its execute node.
NextAsync ==
  \/ AExecuteEmpty
  \/ AExecuteSubmit
  \/ WorkerStart
  \/ \E sid \in AllIds, outcome \in ChatOutcomes : WorkerFinish(sid, outcome)
  \/ AExecuteJoin
  \/ reviewing_node
  \/ synthesizing_node
  \/ RequestStop

SpecAsync == InitAsync /\ [][NextAsync]_vars

\* ------------------------------------------------------------------------
\* ExecutionBridge.execute_plan, one step per call on the RunnerClient
\* ------------------------------------------------------------------------

\* What RunnerClient.health does: returns, raises RunnerOfflineError, raises
\* RunnerError.
HealthOutcomes == {"ok", "offline", "rejected"}

\* GitStatus.dirtyCount values the Runner reports.
DirtyCounts == {0, 3}

\* What RunnerClient.git_status does: a GitStatus, or one of the exceptions.
StatusOutcomes ==
  { [kind |-> "ok", dirtyCount |-> d] : d \in DirtyCounts }
  \cup { [kind |-> k, dirtyCount |-> 0] : k \in {"offline", "rejected"} }

\* What run_cmd and run_claude do: a CmdResult with exit code 0, one with
\* another exit code, or one of the exceptions.
CmdOutcomes == {"exit0", "exit1", "offline", "rejected"}

Raised(o) == o \in {"offline", "rejected"}

\* How a command ended: with exit code 0, or not (another exit code, or
\* an exception of the client).
Ended(o) == IF o = "exit0" THEN "exit0" ELSE "failed"

\* What push_pr does: a PrResult; RunnerError with the text of
\* endpoints.py:425-432 (pushed, "gh pr create" failed); RunnerError with
\* another text that contains "gh" (such as a failed push to a github
\* remote); RunnerError with a text without it; RunnerOfflineError.
PushOutcomes ==
  {"ok", "pr_creation_failed", "gh_in_text", "plain_error", "offline"}

\* What "git rev-parse --abbrev-ref HEAD" yields.
RevParseOutcomes == {"main", "other", "offline", "rejected"}

\* One call on the RunnerClient (arg: the subtask of a run_claude call).
Call(op, arg) == [op |-> op, arg |-> arg]

Called(op) == \E k \in 1..Len(calls) : calls[k].op = op

\* _check_self_edit_safety: the subtasks whose description names a
\* protected file.
_check_self_edit_safety(sts) ==
  { k \in 1..Len(sts) : sts[k] = "protected" }

\* The error of the first preflight gate that fails before the git status
\* is read, "" if none does (execution_bridge.py:134-154); h is what
\* health did.
PreflightError(h, a) ==
  IF h # "ok" THEN "offline"
  ELSE IF Len(a.subtasks) > MAX_SUBTASKS_PER_EXECUTION THEN "too_many"
  ELSE IF a.is_self_edit /\ _check_self_edit_safety(a.subtasks) # {}
  THEN "safety"
  ELSE ""

\* Variant: an exception of the callback leaves _progress.
_progress_Propagates(cb, ph) == ~(cb.set /\ ph \in cb.raises)

\* _progress(phase, detail) (execution_bridge.py:125-130): TRUE when the
\* call returns to execute_plan.  The callback is called if there is one,
\* and an Exception it raises is caught and dropped.
_progress(cb, ph) == TRUE

\* An exception leaves execute_plan between two calls on the Runner.
Propagate ==
  /\ pc' = "raised"
  /\ UNCHANGED << args, on_progress, loop_i, all_success, result, calls, obs,
                  not_bridge_vars >>

\* Where execute_plan is after _progress(ph) when it was heading for p.
Via(ph, p) == IF _progress(on_progress, ph) THEN p ELSE "raised"

\* _progress("preflight"), is_runner_online and the two gates that need no
\* further call
Preflight(h) ==
  /\ pc = "preflight"
  /\ IF ~_progress(on_progress, "preflight") THEN Propagate
     ELSE /\ calls' = Append(calls, Call("health", 0))
          /\ obs' = [obs EXCEPT !.health = h]
          /\ result' = [result EXCEPT !.error = PreflightError(h, args)]
          /\ pc' = IF PreflightError(h, args) = "" THEN "git_status"
                   ELSE "returned"
          /\ UNCHANGED << args, on_progress, loop_i, all_success,
                          not_bridge_vars >>

\* Variant: a dirty working tree is let through.
IsDirty_Never(st) == FALSE

\* git_st.dirtyCount > 0
IsDirty(st) == st.dirtyCount > 0

\* "Check git is clean" (execution_bridge.py:156-175)
CheckClean(o) ==
  /\ pc = "git_status"
  /\ calls' = Append(calls, Call("git_status", 0))
  /\ obs' = [obs EXCEPT !.status = o.kind, !.dirtyCount = o.dirtyCount]
  /\ IF o.kind = "offline"
     THEN /\ result' = [result EXCEPT !.error = "status_offline"]
          /\ pc' = "returned"
     ELSE IF o.kind = "rejected"
     THEN /\ result' = [result EXCEPT !.error = "status_failed"]
          /\ pc' = "returned"
     ELSE IF IsDirty(o)
     THEN /\ result' = [result EXCEPT !.error = "dirty",
                                      !.dirty = o.dirtyCount]
          /\ pc' = "returned"
     ELSE /\ result' = result
          /\ pc' = "branch"
  /\ UNCHANGED << args, on_progress, loop_i, all_success, not_bridge_vars >>

\* Where execute_plan goes once the loop is over (execution_bridge.py:262):
\* the tests are run for a self-edit whose subtasks all succeeded.
AfterSubtasks(ok) == IF args.is_self_edit /\ ok THEN "testing" ELSE "stage"

\* Variant: the loop ends at the first failed subtask.
NextInLoop_StopOnFailure(k, ok) ==
  IF k < Len(args.subtasks) /\ ok THEN "subtask" ELSE AfterSubtasks(ok)

\* "for i, subtask in enumerate(subtasks)": after k subtasks the loop goes
\* on with the next one, whatever happened to the earlier ones.
NextInLoop(k, ok) ==
  IF k < Len(args.subtasks) THEN "subtask" ELSE AfterSubtasks(ok)

\* "Create feature branch" (execution_bridge.py:177-193)
CreateBranch(o) ==
  /\ pc = "branch"
  /\ IF ~_progress(on_progress, "branch") THEN Propagate
     ELSE /\ calls' = Append(calls, Call("checkout_b", 0))
          /\ IF o = "exit0"
             THEN /\ result' = [result EXCEPT !.branch = "feature"]
                  /\ pc' = NextInLoop(0, all_success)
             ELSE /\ result' = [result EXCEPT
                                  !.branch = "feature",
                                  !.error = IF Raised(o) THEN "branch_raised"
                                            ELSE "branch_failed"]
                  /\ pc' = "returned"
          /\ UNCHANGED << args, on_progress, loop_i, all_success, obs,
                          not_bridge_vars >>

\* One pass of the loop over the subtasks (execution_bridge.py:197-259)
RunSubtask(o) ==
  /\ pc = "subtask"
  /\ LET k == loop_i + 1
         ok == o = "exit0"
     IN IF args.subtasks[k] = ""
        THEN /\ loop_i' = k
             /\ result' = [result EXCEPT !.subtask_results =
                             Append(@, [id |-> k, success |-> FALSE])]
             /\ pc' = NextInLoop(k, all_success)
             /\ UNCHANGED << args, on_progress, calls, all_success, obs,
                             not_bridge_vars >>
        ELSE IF ~_progress(on_progress, "subtask") THEN Propagate
        ELSE /\ loop_i' = k
             /\ calls' = Append(calls, Call("run_claude", k))
             /\ result' = [result EXCEPT !.subtask_results =
                             Append(@, [id |-> k, success |-> ok])]
             /\ all_success' = (all_success /\ ok)
             /\ pc' = NextInLoop(k, all_success /\ ok)
             /\ UNCHANGED << args, on_progress, obs, not_bridge_vars >>

\* "Run tests if this is a self-edit" (execution_bridge.py:262-274) with
\* _run_tests, which turns an exception into exit code 1; the entry
\* "auto-test" has id 0.
RunTests(o) ==
  /\ pc = "testing"
  /\ IF ~_progress(on_progress, "testing") THEN Propagate
     ELSE /\ calls' = Append(calls, Call("pytest", 0))
          /\ result' = [result EXCEPT !.subtask_results =
                          Append(@, [id |-> 0, success |-> (o = "exit0")])]
          /\ all_success' = (all_success /\ o = "exit0")
          /\ pc' = "stage"
          /\ UNCHANGED << args, on_progress, loop_i, obs, not_bridge_vars >>

\* "Stage changes" (execution_bridge.py:277-284): whatever the call does
Stage(o) ==
  /\ pc = "stage"
  /\ calls' = Append(calls, Call("git_add", 0))
  /\ pc' = "final_status"
  /\ UNCHANGED << args, on_progress, loop_i, all_success, result, obs,
                  not_bridge_vars >>

\* result.git_status.get("dirty", 0)
Dirty(r) == IF r.dirty < 0 THEN 0 ELSE r.dirty

\* should_pr = (self.auto_pr or auto_approve) and all_success
should_pr(a, ok) == (a.auto_pr \/ a.auto_approve) /\ ok

\* result.success = all_success and not result.error
Finish(r, ok) == [r EXCEPT !.success = (ok /\ r.error = "")]

\* "Final git status" and the choice of execution_bridge.py:298-360
FinalStatus(o) ==
  /\ pc = "final_status"
  /\ calls' = Append(calls, Call("git_status", 0))
  /\ LET r == IF o.kind = "ok" THEN [result EXCEPT !.dirty = o.dirtyCount]
              ELSE result
     IN IF should_pr(args, all_success) /\ Dirty(r) > 0
        THEN result' = r /\ pc' = "pushing"
        ELSE IF ~all_success
        THEN result' = r /\ pc' = "wip"
        ELSE result' = Finish(r, all_success) /\ pc' = "rev_parse"
  /\ UNCHANGED << args, on_progress, loop_i, all_success, obs,
                  not_bridge_vars >>

\* execution_bridge.py:314: the text of the error tells that only the pull
\* request failed.
MergeOnly(o) == o \in {"pr_creation_failed", "gh_in_text"}

\* runner.push_pr (execution_bridge.py:301-320)
PushPr(o) ==
  /\ pc = "pushing"
  /\ IF ~_progress(on_progress, "pushing") THEN Propagate
     ELSE /\ calls' = Append(calls, Call("push_pr", 0))
          /\ obs' = [obs EXCEPT !.push = o]
          /\ IF o = "ok"
             THEN /\ result' =
                       Finish([result EXCEPT !.pr_url = TRUE], all_success)
                  /\ pc' = "rev_parse"
             ELSE /\ result' = result
                  /\ pc' = IF MergeOnly(o)
                           THEN Via("merging", "merge_checkout")
                           ELSE Via("committing", "commit_local")
          /\ UNCHANGED << args, on_progress, loop_i, all_success,
                          not_bridge_vars >>

\* "Commit locally if push also failed" (execution_bridge.py:321-328)
CommitLocal(o) ==
  /\ pc = "commit_local"
  /\ calls' = Append(calls, Call("git_commit", 0))
  /\ obs' = [obs EXCEPT !.commit = Ended(o)]
  /\ pc' = "merge_checkout"
  /\ UNCHANGED << args, on_progress, loop_i, all_success, result,
                  not_bridge_vars >>

\* Variant: the branch is never marked as merged.
AfterMerge_NoAnnotation(r, raised) ==
  [r EXCEPT !.error = "", !.success = TRUE]

\* execution_bridge.py:341-346: the branch is marked as merged when neither
\* call raised; the result is a success either way.
AfterMerge(r, raised) ==
  IF raised THEN [r EXCEPT !.error = "", !.success = TRUE]
  ELSE [r EXCEPT !.branch = "feature_merged", !.error = "", !.success = TRUE]

\* "git checkout main" of the merge (execution_bridge.py:330-335)
MergeCheckout(o) ==
  /\ pc = "merge_checkout"
  /\ calls' = Append(calls, Call("checkout_main", 0))
  /\ IF Raised(o)
     THEN /\ result' = Finish(AfterMerge(result, TRUE), all_success)
          /\ obs' = [obs EXCEPT !.merge = "raised", !.checkout = Ended(o)]
          /\ pc' = "rev_parse"
     ELSE /\ result' = result
          /\ obs' = [obs EXCEPT !.checkout = Ended(o)]
          /\ pc' = "merge"
  /\ UNCHANGED << args, on_progress, loop_i, all_success, not_bridge_vars >>

\* "git merge <branch> --no-edit" (execution_bridge.py:336-346, 360)
Merge(o) ==
  /\ pc = "merge"
  /\ calls' = Append(calls, Call("merge", 0))
  /\ result' = Finish(AfterMerge(result, Raised(o)), all_success)
  /\ obs' = [obs EXCEPT !.merge = IF Raised(o) THEN "raised" ELSE "returned",
                        !.merge_exit = Ended(o)]
  /\ pc' = "rev_parse"
  /\ UNCHANGED << args, on_progress, loop_i, all_success, not_bridge_vars >>

\* "Commit WIP, leave branch for inspection" (execution_bridge.py:347-360)
CommitWip(o) ==
  /\ pc = "wip"
  /\ IF ~_progress(on_progress, "cleanup") THEN Propagate
     ELSE /\ calls' = Append(calls, Call("commit_wip", 0))
          /\ result' = Finish([result EXCEPT !.error = "wip"], all_success)
          /\ pc' = "rev_parse"
          /\ UNCHANGED << args, on_progress, loop_i, all_success, obs,
                          not_bridge_vars >>

\* "Switch back to main": the current branch is asked for
\* (execution_bridge.py:365-372, 378-382)
RevParse(o) ==
  /\ pc = "rev_parse"
  /\ IF ~_progress(on_progress, "cleanup") THEN Propagate
     ELSE /\ calls' = Append(calls, Call("rev_parse", 0))
          /\ pc' = IF o = "other" THEN "switch_back"
                   ELSE Via("done", "returned")
          /\ UNCHANGED << args, on_progress, loop_i, all_success, result,
                          obs, not_bridge_vars >>

\* "git checkout main" when not on main (execution_bridge.py:373-382)
SwitchBack(o) ==
  /\ pc = "switch_back"
  /\ calls' = Append(calls, Call("checkout_main", 0))
  /\ pc' = Via("done", "returned")
  /\ UNCHANGED << args, on_progress, loop_i, all_success, result, obs,
                  not_bridge_vars >>

\* The orchestrator before any run: _initial_state, no budget, no stop.
OrchestratorIdle ==
  /\ phase = "intake"
  /\ subtasks = << >>
  /\ results = << >>
  /\ ready_queue = << >>
  /\ max_revisions = DefaultMaxRevisions
  /\ final_output = {}
  /\ errors = << >>
  /\ stop_event = FALSE
  /\ budget = NoBudget
  /\ futures = NoFutures
  /\ pool_open = FALSE
  /\ iterations = 0
  /\ skipped = FALSE
  /\ undocumented = FALSE
  /\ reviewed = {}

\* execute_plan is entered (execution_bridge.py:122-123) on a bridge made
\* with either value of auto_pr, without a progress callback.
InitBridge ==
  /\ OrchestratorIdle
  /\ ServicesIdle
  /\ args \in [is_self_edit : BOOLEAN, auto_pr : BOOLEAN,
               auto_approve : BOOLEAN, subtasks : BridgeSubtasks]
  /\ on_progress = NoCallback
  /\ pc = "preflight"
  /\ loop_i = 0
  /\ all_success = TRUE
  /\ result = NewExecutionResult
  /\ calls = << >>
  /\ obs = NoObs
  /\ twin = NoTwin

NextBridge ==
  \/ \E h \in HealthOutcomes : Preflight(h) /\ UNCHANGED twin
  \/ \E o \in StatusOutcomes : CheckClean(o) /\ UNCHANGED twin
  \/ \E o \in CmdOutcomes : CreateBranch(o) /\ UNCHANGED twin
  \/ \E o \in CmdOutcomes : RunSubtask(o) /\ UNCHANGED twin
  \/ \E o \in CmdOutcomes : RunTests(o) /\ UNCHANGED twin
  \/ \E o \in CmdOutcomes : Stage(o) /\ UNCHANGED twin
  \/ \E o \in StatusOutcomes : FinalStatus(o) /\ UNCHANGED twin
  \/ \E o \in PushOutcomes : PushPr(o) /\ UNCHANGED twin
  \/ \E o \in CmdOutcomes : CommitLocal(o) /\ UNCHANGED twin
  \/ \E o \in CmdOutcomes : MergeCheckout(o) /\ UNCHANGED twin
  \/ \E o \in CmdOutcomes : Merge(o) /\ UNCHANGED twin
  \/ \E o \in CmdOutcomes : CommitWip(o) /\ UNCHANGED twin
  \/ \E o \in RevParseOutcomes : RevParse(o) /\ UNCHANGED twin
  \/ \E o \in CmdOutcomes : SwitchBack(o) /\ UNCHANGED twin

SpecBridge == InitBridge /\ [][NextBridge]_vars

\* ------------------------------------------------------------------------
\* execute_plan when a call on the RunnerClient raises something else
\* ------------------------------------------------------------------------

\* The call execute_plan is about to make where it catches
\* (RunnerOfflineError, RunnerError) only: health in is_runner_online
\* (execution_bridge.py:94-98), the first git_status (157-175), "git
\* checkout -b" (182-193), run_claude (225-259), pytest in _run_tests
\* (456-464) and push_pr (301-310).  "none" elsewhere: every other call is
\* made under "except Exception", where any exception does what "rejected"
\* does in the steps above.
NarrowlyGuardedCall ==
  CASE pc = "preflight" -> "health"
    [] pc = "git_status" -> "git_status"
    [] pc = "branch" -> "checkout_b"
    [] pc = "subtask" /\ args.subtasks[loop_i + 1] # "" -> "run_claude"
    [] pc = "testing" -> "pytest"
    [] pc = "pushing" -> "push_pr"
    [] OTHER -> "none"

\* The client raises an exception that is neither RunnerOfflineError nor
\* RunnerError (client.py:54-145 lets through what httpx, resp.json() and
\* the response models raise): no handler of execute_plan matches, and the
\* exception leaves execute_plan.
UnexpectedException ==
  /\ NarrowlyGuardedCall # "none"
  /\ calls' = Append(calls, Call(NarrowlyGuardedCall,
                                 IF pc = "subtask" THEN loop_i + 1 ELSE 0))
  /\ pc' = "raised"
  /\ UNCHANGED << args, on_progress, loop_i, all_success, result, obs,
                  not_bridge_vars >>

NextBridgeAny ==
  \/ NextBridge
  \/ UnexpectedException /\ UNCHANGED twin

SpecBridgeAny == InitBridge /\ [][NextBridgeAny]_vars

\* ------------------------------------------------------------------------
\* Two calls of execute_plan side by side: one with a progress callback,
\* one without, same arguments otherwise, same answers of the Runner
\* ------------------------------------------------------------------------

\* What the Runner did at a call, in one shape for every call.
Answer(o) == [kind |-> o, dirtyCount |-> -1]

\* The call in turn takes its step: the first call (turn 1) with any answer
\* of the Runner, the second (turn 3) with the answer the first one got.
Paired(e) ==
  /\ twin.turn \in {1, 3}
  /\ twin.turn = 3 => e = twin.pending
  /\ twin' = [twin EXCEPT !.turn = @ + 1, !.pending = e]

\* The other call takes its turn: the variables of execute_plan and those
\* kept in twin change places.
Swap ==
  /\ twin.turn \in {2, 4}
  /\ on_progress' = twin.on_progress
  /\ pc' = twin.pc
  /\ loop_i' = twin.loop_i
  /\ all_success' = twin.all_success
  /\ result' = twin.result
  /\ calls' = twin.calls
  /\ obs' = twin.obs
  /\ twin' = [turn |-> IF twin.turn = 2 THEN 3 ELSE 1,
              pending |-> twin.pending, on_progress |-> on_progress,
              pc |-> pc, loop_i |-> loop_i, all_success |-> all_success,
              result |-> result, calls |-> calls, obs |-> obs]
  /\ UNCHANGED << args, not_bridge_vars >>

\* execute_plan is entered twice with the same arguments, the first time
\* with a callback, the second time with on_progress = None.
InitProgress ==
  /\ OrchestratorIdle
  /\ ServicesIdle
  /\ args \in [is_self_edit : BOOLEAN, auto_pr : BOOLEAN,
               auto_approve : BOOLEAN, subtasks : BridgeSubtasks]
  /\ on_progress \in Callbacks \ {NoCallback}
  /\ pc = "preflight"
  /\ loop_i = 0
  /\ all_success = TRUE
  /\ result = NewExecutionResult
  /\ calls = << >>
  /\ obs = NoObs
  /\ twin = [NoTwin EXCEPT !.turn = 1, !.pc = "preflight"]

NextProgress ==
  \/ \E h \in HealthOutcomes : Preflight(h) /\ Paired(Answer(h))
  \/ \E o \in StatusOutcomes : CheckClean(o) /\ Paired(o)
  \/ \E o \in CmdOutcomes : CreateBranch(o) /\ Paired(Answer(o))
  \/ \E o \in CmdOutcomes : RunSubtask(o) /\ Paired(Answer(o))
  \/ \E o \in CmdOutcomes : RunTests(o) /\ Paired(Answer(o))
  \/ \E o \in CmdOutcomes : Stage(o) /\ Paired(Answer(o))
  \/ \E o \in StatusOutcomes : FinalStatus(o) /\ Paired(o)
  \/ \E o \in PushOutcomes : PushPr(o) /\ Paired(Answer(o))
  \/ \E o \in CmdOutcomes : CommitLocal(o) /\ Paired(Answer(o))
  \/ \E o \in CmdOutcomes : MergeCheckout(o) /\ Paired(Answer(o))
  \/ \E o \in CmdOutcomes : Merge(o) /\ Paired(Answer(o))
  \/ \E o \in CmdOutcomes : CommitWip(o) /\ Paired(Answer(o))
  \/ \E o \in RevParseOutcomes : RevParse(o) /\ Paired(Answer(o))
  \/ \E o \in CmdOutcomes : SwitchBack(o) /\ Paired(Answer(o))
  \/ Swap

SpecProgress == InitProgress /\ [][NextProgress]_vars

\* ------------------------------------------------------------------------
\* RunnerPoller (poller.py)
\* ------------------------------------------------------------------------

\* The intervals the poller is configured with (settings.runner_poll_interval
\* at server.py:123-126, max_interval), in seconds, interval <= max_interval.
BaseIntervals == {1, 5, 10, 30, 60}

MaxIntervals == {10, 60, 300}

\* RunnerPoller.start (poller.py:73-79)
PollerStart ==
  /\ ~poller._running
  /\ poller' = [poller EXCEPT !._running = TRUE, !.task = "checking"]
  /\ UNCHANGED << runner_state, last_health, not_poller_vars >>

\* RunnerPoller.stop (poller.py:81-90): a live task is cancelled.
PollerStop ==
  /\ poller.task # "none"
  /\ poller' = [poller EXCEPT
                  !._running = FALSE,
                  !.task = IF @ \in {"checking", "sleeping"} THEN "cancelled"
                           ELSE @]
  /\ UNCHANGED << runner_state, last_health, not_poller_vars >>

\* _check_once when client.health returns (poller.py:110-126)
CheckOk ==
  /\ poller.task = "checking"
  /\ runner_state' =
       [runner_state EXCEPT
          !.online = TRUE,
          !.consecutive_failures = 0,
          !.current_interval = poller.base_interval,
          !.reconnect_attempts = IF ~runner_state.online THEN 0 ELSE @]
  /\ last_health' = "ok"
  /\ poller' = [poller EXCEPT !.task = "sleeping"]
  /\ UNCHANGED not_poller_vars

RECURSIVE BackoffInterval_Uncapped(_, _, _)
RECURSIVE BackoffInterval(_, _, _)

\* Variant: the interval grows without a cap.
BackoffInterval_Uncapped(base, n, max) ==
  IF n = 0 THEN base
  ELSE _BACKOFF_FACTOR * BackoffInterval_Uncapped(base, n - 1, max)

\* min(base * _BACKOFF_FACTOR ** n, max) (poller.py:138-141) for base > 0,
\* n < FloatMaxExponent, computed by multiplying until the cap is passed,
\* which keeps the product in the range of a TLC integer.
BackoffInterval(base, n, max) ==
  IF base >= max THEN max
  ELSE IF n = 0 THEN base
  ELSE BackoffInterval(_BACKOFF_FACTOR * base, n - 1, max)

\* _check_once when client.health raises (poller.py:128-146).  The
\* counters are updated first; the power then raises OverflowError when
\* its exponent is too large, which leaves _check_once and _poll_loop and
\* ends the task with _running still set.
CheckFail ==
  /\ poller.task = "checking"
  /\ runner_state.consecutive_failures < MaxFailures
  /\ LET k == runner_state.consecutive_failures + 1
         overflow == k - 1 >= FloatMaxExponent
     IN /\ runner_state' =
             [runner_state EXCEPT
                !.online = FALSE,
                !.consecutive_failures = k,
                !.reconnect_attempts = @ + 1,
                !.current_interval =
                   IF overflow THEN @
                   ELSE BackoffInterval(poller.base_interval, k - 1,
                                        poller.max_interval)]
        /\ poller' = [poller EXCEPT
                        !.task = IF overflow THEN "dead" ELSE "sleeping"]
  /\ last_health' = "failed"
  /\ UNCHANGED not_poller_vars

\* asyncio.sleep(self.state.current_interval) is over (poller.py:94-96)
PollerWake ==
  /\ poller.task = "sleeping"
  /\ poller' = [poller EXCEPT !.task = "checking"]
  /\ UNCHANGED << runner_state, last_health, not_poller_vars >>

\* A poller is made, with any interval <= max_interval.
InitPoller ==
  /\ OrchestratorIdle
  /\ BridgeIdle
  /\ \E b \in BaseIntervals, m \in MaxIntervals :
       /\ b <= m
       /\ poller = NewRunnerPoller(b, m)
  /\ runner_state = NewRunnerState
  /\ last_health = "none"
  /\ ProxyIdle
  /\ ClientIdle
  /\ RegistryIdle
  /\ HostIdle

NextPoller ==
  \/ PollerStart
  \/ PollerStop
  \/ CheckOk
  \/ CheckFail
  \/ PollerWake

SpecPoller == InitPoller /\ [][NextPoller]_vars

\* The event loop runs the task: a sleep ends (asyncio.sleep returns after
\* current_interval seconds) and a health check ends (client.health has a
\* timeout of 5 seconds, client.py:112).
FairPoller ==
  /\ WF_vars(PollerWake)
  /\ WF_vars(CheckOk \/ CheckFail)

SpecPollerLive == SpecPoller /\ FairPoller

\* ------------------------------------------------------------------------
\* Who asks the Runner for its health: the poller, the /runner routes
\* (runner_routes.py) and the gate of execute_plan
\* ------------------------------------------------------------------------

\* The routes that forward to the Runner behind _require_online: /cmd,
\* /git/status, /git/diff, /claude/run, /git/push-pr
\* (runner_routes.py:139-229), named by the client method they call.
ProxyRoutes == {"run_cmd", "git_status", "git_diff", "run_claude", "push_pr"}

\* What the forwarded call does: returns, raises RunnerOfflineError, raises
\* RunnerError (here with status 400).
ProxyOutcomes == {"ok", "offline", "rejected"}

\* The status a route answers with after its call on the client.
ProxyStatus(o) ==
  IF o = "ok" THEN 200 ELSE IF o = "offline" THEN 503 ELSE 400

\* _require_online (runner_routes.py:38-48): TRUE when it returns, FALSE
\* when it raises the 503; it reads the state the poller keeps.
_require_online(st) == st.online

\* One of the forwarding routes serves a request.
Proxy(r, o) ==
  /\ proxy' =
       IF _require_online(runner_state)
       THEN [route |-> r, online |-> runner_state.online,
             status |-> ProxyStatus(o), sent |-> << Call(r, 0) >>]
       ELSE [route |-> r, online |-> runner_state.online, status |-> 503,
             sent |-> << >>]
  /\ UNCHANGED not_proxy_vars

\* GET /runner/debug (runner_routes.py:87-117) calls client.health()
\* itself and answers 200 whatever it does.
runner_debug ==
  /\ proxy' = [route |-> "debug", online |-> runner_state.online,
               status |-> 200, sent |-> << Call("health", 0) >>]
  /\ UNCHANGED not_proxy_vars

\* The poller is made with its defaults, and execute_plan is entered.
InitGate ==
  /\ OrchestratorIdle
  /\ PollerIdle
  /\ ProxyIdle
  /\ ClientIdle
  /\ RegistryIdle
  /\ HostIdle
  /\ args = [is_self_edit |-> FALSE, auto_pr |-> TRUE, auto_approve |-> FALSE,
             subtasks |-> << "plain" >>]
  /\ on_progress = NoCallback
  /\ pc = "preflight"
  /\ loop_i = 0
  /\ all_success = TRUE
  /\ result = NewExecutionResult
  /\ calls = << >>
  /\ obs = NoObs
  /\ twin = NoTwin

\* The poller runs, requests come in on the routes, execute_plan goes
\* through its reachability gate.
NextGate ==
  \/ PollerStart
  \/ PollerStop
  \/ CheckOk
  \/ CheckFail
  \/ PollerWake
  \/ \E r \in ProxyRoutes, o \in ProxyOutcomes : Proxy(r, o)
  \/ runner_debug
  \/ \E h \in HealthOutcomes : Preflight(h) /\ UNCHANGED twin

SpecGate == InitGate /\ [][NextGate]_vars

\* ------------------------------------------------------------------------
\* RunnerClient (client.py): one call of a method
\* ------------------------------------------------------------------------

\* health, run_cmd, git_status, git_diff, run_claude, push_pr
\* (client.py:110-140)
ClientMethods ==
  {"health", "run_cmd", "git_status", "git_diff", "run_claude", "push_pr"}

\* What httpx does with the request: a response comes back, or it raises
\* ConnectError, TimeoutException, or another of its errors (ReadError
\* when the connection breaks while the answer is read, also WriteError,
\* RemoteProtocolError), none of which derives from the first two.
Transports == {"response", "ConnectError", "TimeoutException", "ReadError"}

\* Status codes of a response.
StatusCodes == {200, 302, 400, 401, 404, 500}

\* The body of a response: the JSON of the model the method returns, a
\* JSON object with a "detail" entry (what the host sends with an error),
\* another JSON value, or text that is no JSON.
Bodies == {"model_json", "detail_json", "other_json", "text"}

\* resp.status_code >= 400 (client.py:68, 95)
RaisesRunnerError(status) == status >= 400

\* The detail of the RunnerError (client.py:69-74, 96-101): the "detail"
\* entry of the JSON body if there is one, else the text of the body.
Detail(body) == IF body = "detail_json" THEN "detail" ELSE "text"

\* _get / _post (client.py:54-106)
_request(c) ==
  IF c.transport = "ConnectError" \/ c.transport = "TimeoutException"
  THEN ClientResult("RunnerOfflineError", 0, "")
  ELSE IF c.transport # "response"
  THEN ClientResult("other", 0, "")
  ELSE IF RaisesRunnerError(c.status)
  THEN ClientResult("RunnerError", c.status, Detail(c.body))
  ELSE ClientResult("returned", c.status, "")

\* A method (client.py:110-140): _get or _post, then the model is built
\* from resp.json(), which raises on a body that is no JSON or lacks the
\* fields of the model; git_diff returns resp.text as it is.
ClientMethod(c) ==
  LET r == _request(c)
  IN IF r.kind # "returned" THEN r
     ELSE IF c.method = "git_diff" \/ c.body = "model_json" THEN r
     ELSE ClientResult("other", 0, "")

\* The call is made.
ClientCall ==
  /\ client_result.kind = "none"
  /\ client_result' = ClientMethod(client_call)
  /\ UNCHANGED << client_call, not_client_vars >>

\* A method is about to be called; the network does any of the above.
InitClient ==
  /\ OrchestratorIdle
  /\ BridgeIdle
  /\ PollerIdle
  /\ ProxyIdle
  /\ RegistryIdle
  /\ HostIdle
  /\ client_call \in
       { c \in [method : ClientMethods, transport : Transports,
                status : StatusCodes \cup {0}, body : Bodies \cup {"none"}] :
           IF c.transport = "response" THEN c.status # 0 /\ c.body # "none"
           ELSE c.status = 0 /\ c.body = "none" }
  /\ client_result = ClientResult("none", 0, "")

NextClient ==
  \/ ClientCall

SpecClient == InitClient /\ [][NextClient]_vars

\* ------------------------------------------------------------------------
\* The registry of active runs (run_state.py)
\* ------------------------------------------------------------------------

\* start_run (run_state.py:17-23): a new id, a new Event, registered.
start_run(id) ==
  /\ id \notin minted
  /\ minted' = minted \cup {id}
  /\ _active_runs' = _active_runs \cup {id}
  /\ UNCHANGED << signal, stop_call, run_log, current_run_id,
                  not_registry_vars >>

\* stop_run up to the end of its "with _lock" block (run_state.py:28-29),
\* and its "return False" when it found no Event (run_state.py:33); a call
\* of stop_run is made with any id, one call at a time.
stop_run_get(id) ==
  /\ stop_call.stage # "found"
  /\ stop_call' =
       IF id \in _active_runs
       THEN [id |-> id, stage |-> "found", ret |-> FALSE, again |-> FALSE]
       ELSE [id |-> id, stage |-> "returned", ret |-> FALSE, again |-> FALSE]
  /\ UNCHANGED << _active_runs, signal, minted, run_log, current_run_id,
                  not_registry_vars >>

\* Variant: each call flips the signal.
Set_Toggle(sig, id) == [sig EXCEPT ![id] = ~@]

\* event.set()
Set(sig, id) == [sig EXCEPT ![id] = TRUE]

\* stop_run after the lock is released (run_state.py:30-32): the Event it
\* found is set, registered or not by now (again: it was set already).
stop_run_set ==
  /\ stop_call.stage = "found"
  /\ signal' = Set(signal, stop_call.id)
  /\ stop_call' = [stop_call EXCEPT !.stage = "returned", !.ret = TRUE,
                                    !.again = signal[stop_call.id]]
  /\ run_log' = [run_log EXCEPT !.stopped = @ \cup {stop_call.id}]
  /\ UNCHANGED << _active_runs, minted, current_run_id, not_registry_vars >>

\* Variant: end_run leaves the mapping.
Pop_Keeps(runs, id) == runs

\* _active_runs.pop(run_id, None)
Pop(runs, id) == runs \ {id}

\* end_run (run_state.py:36-39), called with an id start_run returned
\* (routes.py:741, 785)
end_run(id) ==
  /\ id \in minted
  /\ _active_runs' = Pop(_active_runs, id)
  /\ run_log' = [run_log EXCEPT !.ended = @ \cup {id}]
  /\ UNCHANGED << signal, minted, stop_call, current_run_id,
                  not_registry_vars >>

\* get_stop_event (run_state.py:42-45): the Event of the run, named by the
\* run it was made for, or None.
get_stop_event(id) == IF id \in _active_runs THEN id ELSE NoRun

InitRegistry ==
  /\ OrchestratorIdle
  /\ BridgeIdle
  /\ PollerIdle
  /\ ProxyIdle
  /\ ClientIdle
  /\ RegistryIdle
  /\ HostIdle

NextRegistry ==
  \/ \E id \in RunIds : start_run(id)
  \/ \E id \in RunIds : stop_run_get(id)
  \/ stop_run_set
  \/ \E id \in RunIds : end_run(id)

SpecRegistry == InitRegistry /\ [][NextRegistry]_vars

\* ------------------------------------------------------------------------
\* The streamed runs and the stop endpoint (api/routes.py)
\* ------------------------------------------------------------------------

\* POST /orchestrator/stream up to the StreamingResponse (routes.py:741-742):
\* the run is registered and becomes the current run.
stream_orchestrator(id) ==
  /\ id \notin minted
  /\ minted' = minted \cup {id}
  /\ _active_runs' = _active_runs \cup {id}
  /\ current_run_id' = id
  /\ UNCHANGED << signal, stop_call, run_log, not_registry_vars >>

\* The "finally" of event_generator (routes.py:784-787): the run is over;
\* current_run_id is cleared if it still names this run.
event_generator_finally(id) ==
  /\ id \in _active_runs
  /\ _active_runs' = Pop(_active_runs, id)
  /\ run_log' = [run_log EXCEPT !.ended = @ \cup {id}]
  /\ current_run_id' = IF current_run_id = id THEN NoRun ELSE current_run_id
  /\ UNCHANGED << signal, minted, stop_call, not_registry_vars >>

\* POST /orchestrator/stop (routes.py:712-721) up to the end of the "with
\* _lock" block of stop_run: "no_active_run" (no id, returned) when
\* current_run_id is None, else stop_run(current_run_id), which ends in
\* stop_run_set when it found the Event.
stop_orchestrator ==
  /\ stop_call.stage # "found"
  /\ stop_call' =
       IF current_run_id = NoRun
       THEN [id |-> NoRun, stage |-> "returned", ret |-> FALSE,
             again |-> FALSE]
       ELSE IF current_run_id \in _active_runs
       THEN [id |-> current_run_id, stage |-> "found", ret |-> FALSE,
             again |-> FALSE]
       ELSE [id |-> current_run_id, stage |-> "returned", ret |-> FALSE,
             again |-> FALSE]
  /\ UNCHANGED << _active_runs, signal, minted, run_log, current_run_id,
                  not_registry_vars >>

InitStream ==
  /\ OrchestratorIdle
  /\ BridgeIdle
  /\ PollerIdle
  /\ ProxyIdle
  /\ ClientIdle
  /\ RegistryIdle
  /\ HostIdle

NextStream ==
  \/ \E id \in RunIds : stream_orchestrator(id)
  \/ \E id \in RunIds : event_generator_finally(id)
  \/ stop_orchestrator
  \/ stop_run_set

SpecStream == InitStream /\ [][NextStream]_vars

\* ------------------------------------------------------------------------
\* The runner's safety layer (runner/safety.py) and the endpoints that use
\* it (runner/endpoints.py)
\* ------------------------------------------------------------------------

\* A command is the sequence of its words (white space in between): a
\* program, then at most MaxArgs of these arguments.  "maintenance" is a
\* feature branch whose name holds "main"; "HEAD:main" a refspec that
\* pushes to main.
Programs ==
  { << "git", "push" >>, << "git", "merge" >>, << "git", "status" >>,
    << "npm", "test" >>, << "rm", "-rf" >>, << "vercel" >> }

ArgWords ==
  {"-u", "origin", "main", "master", "HEAD:main", "feature", "maintenance",
   "/", "build", "--prod"}

Commands ==
  { p \o a : p \in Programs,
             a \in UNION { [ 1..n -> ArgWords ] : n \in 0..MaxArgs } }

\* The words (main|master)\b matches at the start of, and those
\* (main|master) matches somewhere in.
StartsWithProtected == {"main", "master"}

ContainsProtected == {"main", "master", "HEAD:main", "maintenance"}

\* _PROTECTED_BRANCH_PUSH.search (safety.py:10-12):
\* git\s+push\s+\S+\s+(main|master)\b, that is "git", "push", any one word,
\* then a word that starts with main or master and a word boundary.
_PROTECTED_BRANCH_PUSH(cmd) ==
  \E p \in 1..Len(cmd) :
    /\ p + 3 <= Len(cmd)
    /\ cmd[p] = "git"
    /\ cmd[p + 1] = "push"
    /\ cmd[p + 3] \in StartsWithProtected

\* _PROTECTED_MERGE.search (safety.py:15-17): git\s+merge\s+.*(main|master),
\* that is "git", "merge", then main or master anywhere in what follows.
_PROTECTED_MERGE(cmd) ==
  \E p \in 1..Len(cmd) :
    /\ cmd[p] = "git"
    /\ p + 1 <= Len(cmd)
    /\ cmd[p + 1] = "merge"
    /\ \E q \in (p + 2)..Len(cmd) : cmd[q] \in ContainsProtected

\* _DESTRUCTIVE_FS.search (safety.py:20-22), of which the words of
\* Commands can only meet rm\s+-rf\s+[/\\].
_DESTRUCTIVE_FS(cmd) ==
  \E p \in 1..Len(cmd) :
    /\ p + 2 <= Len(cmd)
    /\ cmd[p] = "rm"
    /\ cmd[p + 1] = "-rf"
    /\ cmd[p + 2] = "/"

\* _DEPLOY.search (safety.py:25-27), of which the words of Commands can
\* only meet vercel\s+--prod.
_DEPLOY(cmd) ==
  \E p \in 1..Len(cmd) :
    /\ p + 1 <= Len(cmd)
    /\ cmd[p] = "vercel"
    /\ cmd[p + 1] = "--prod"

\* validate_command (safety.py:34-55): the SafetyError raised, "" if none.
validate_command(cmd) ==
  IF _PROTECTED_BRANCH_PUSH(cmd) THEN "push"
  ELSE IF _PROTECTED_MERGE(cmd) THEN "merge"
  ELSE IF _DESTRUCTIVE_FS(cmd) THEN "destructive"
  ELSE IF _DEPLOY(cmd) THEN "deploy"
  ELSE ""

\* The branch names sent to /git/push-pr.
BranchNames == {"main", "master", "feature", "maintenance"}

Branches ==
  { Branch(n, u, p) : n \in BranchNames, u \in BOOLEAN, p \in BOOLEAN }

\* str.strip and str.lower
strip(b) == [b EXCEPT !.padded = FALSE]

lower(b) == [b EXCEPT !.upper = FALSE]

\* validate_branch_for_push (safety.py:58-65): TRUE when it raises.
validate_branch_for_push(b) ==
  lower(strip(b)) \in {Branch("main", FALSE, FALSE),
                       Branch("master", FALSE, FALSE)}

\* Variant: the project is resolved before the command is validated.
run_command_ResolveFirst(req) ==
  IF ~req.project_known THEN HostResponse(404, << "resolve" >>)
  ELSE IF validate_command(req.command) # ""
  THEN HostResponse(400, << "resolve" >>)
  ELSE HostResponse(200, << "resolve", "subprocess" >>)

\* POST /cmd (endpoints.py:205-225): validate_command, then
\* _resolve_project_path (404 for an unknown project, endpoints.py:73-78),
\* then _run_subprocess.
run_command(req) ==
  IF validate_command(req.command) # "" THEN HostResponse(400, << >>)
  ELSE IF ~req.project_known THEN HostResponse(404, << "resolve" >>)
  ELSE HostResponse(200, << "resolve", "subprocess" >>)

\* POST /git/push-pr (endpoints.py:335-438): validate_branch_for_push,
\* then _resolve_project_path, then the git and gh calls, which end well
\* (ok = TRUE) or with status 500.
push_pr(req, ok) ==
  IF validate_branch_for_push(req.branch) THEN HostResponse(400, << >>)
  ELSE IF ~req.project_known THEN HostResponse(404, << "resolve" >>)
  ELSE HostResponse(IF ok THEN 200 ELSE 500, << "resolve", "git" >>)

ServeCmd ==
  /\ host_request.route = "cmd"
  /\ host_response.status = 0
  /\ host_response' = run_command(host_request)
  /\ UNCHANGED << host_request, auth, not_host_vars >>

ServePushPr(ok) ==
  /\ host_request.route = "push_pr"
  /\ host_response.status = 0
  /\ host_response' = push_pr(host_request, ok)
  /\ UNCHANGED << host_request, auth, not_host_vars >>

\* A request has come in on /cmd or /git/push-pr.
InitHost ==
  /\ OrchestratorIdle
  /\ BridgeIdle
  /\ PollerIdle
  /\ ProxyIdle
  /\ ClientIdle
  /\ RegistryIdle
  /\ host_request \in
       { [NoHostRequest EXCEPT !.route = "cmd", !.command = c,
                               !.project_known = k] :
           c \in Commands, k \in BOOLEAN }
       \cup
       { [NoHostRequest EXCEPT !.route = "push_pr", !.branch = b,
                               !.project_known = k] :
           b \in Branches, k \in BOOLEAN }
  /\ host_response = HostResponse(0, << >>)
  /\ auth = NoAuth

NextHost ==
  \/ ServeCmd
  \/ \E ok \in BOOLEAN : ServePushPr(ok)

SpecHost == InitHost /\ [][NextHost]_vars

\* ------------------------------------------------------------------------
\* The runner's auth middleware (runner/app.py)
\* ------------------------------------------------------------------------

\* The secrets runner_token is configured with ("" is none), and the
\* values the header is sent with.
Secrets == {"", "s3cret", "other"}

HeaderValues == {"", "s3cret", "other", "wrong"}

\* request.headers.get("X-Runner-Token", default)
headers_get(h, default) == IF h.present THEN h.value ELSE default

\* Variant: only a header that is present and wrong is rejected.
dispatch_Rejects_OnlyWrong(token, h) ==
  token # "" /\ h.present /\ h.value # token

\* TokenAuthMiddleware.dispatch (app.py:27-42): TRUE when it answers 401
\* itself, FALSE when it hands the request to call_next.
dispatch_Rejects(token, h) ==
  IF token = "" THEN FALSE
  ELSE headers_get(h, "") # token

\* call_next: the endpoint of the request's route.
call_next(req, ok) ==
  IF req.route = "cmd" THEN run_command(req) ELSE push_pr(req, ok)

\* The application serves a request: the middleware, then the endpoint.
Dispatch(ok) ==
  /\ host_request.route # "none"
  /\ host_response.status = 0
  /\ IF dispatch_Rejects(auth.runner_token, auth.header)
     THEN /\ host_response' = HostResponse(401, << >>)
          /\ UNCHANGED auth
     ELSE /\ auth' = [auth EXCEPT !.called_next = TRUE]
          /\ host_response' = call_next(host_request, ok)
  /\ UNCHANGED << host_request, not_host_vars >>

\* A request has come in, with or without the header, at a runner with or
\* without a secret.
InitAuth ==
  /\ OrchestratorIdle
  /\ BridgeIdle
  /\ PollerIdle
  /\ ProxyIdle
  /\ ClientIdle
  /\ RegistryIdle
  /\ host_request \in
       { [NoHostRequest EXCEPT !.route = "cmd", !.command = c,
                               !.project_known = k] :
           c \in { << "git", "status" >>,
                   << "git", "push", "origin", "main" >> },
           k \in BOOLEAN }
       \cup
       { [NoHostRequest EXCEPT !.route = "push_pr", !.branch = b,
                               !.project_known = k] :
           b \in Branches, k \in BOOLEAN }
  /\ host_response = HostResponse(0, << >>)
  /\ auth \in { [NoAuth EXCEPT !.runner_token = t, !.header = h] :
                  t \in Secrets,
                  h \in {NoHeader} \cup { Header(v) : v \in HeaderValues } }

NextAuth == \E ok \in BOOLEAN : Dispatch(ok)

SpecAuth == InitAuth /\ [][NextAuth]_vars

\* ------------------------------------------------------------------------
\* Two calls of execute_plan for the same project, each in a thread of the
\* default executor (api/routes.py:945-956), on the one checkout the
\* Runner has of the project
\* ------------------------------------------------------------------------

\* Variant: a per-project lock is taken on entry and held until the call
\* returns.
Admitted_Locked(mine, other) ==
  mine # "preflight" \/ other \in {"preflight", "returned", "raised"}

\* Whether a call of execute_plan at position mine may take its next step
\* while the other call is at position other: always, execute_plan takes
\* no lock on entry or later (execution_bridge.py:122-193).
Admitted(mine, other) == TRUE

\* What GET /git/status reports of the checkout (endpoints.py:228-280):
\* clean until an editing session of either call has run in it.
CheckoutStatus ==
  [kind |-> "ok",
   dirtyCount |->
     IF \/ \E k \in 1..Len(calls) : calls[k].op = "run_claude"
        \/ \E k \in 1..Len(twin.calls) : twin.calls[k].op = "run_claude"
     THEN 3 ELSE 0]

\* A step of the call whose variables are those of execute_plan, the
\* Runner being up.
TwoRunsStep ==
  /\ Admitted(pc, twin.pc)
  /\ \/ Preflight("ok")
     \/ CheckClean(CheckoutStatus)
     \/ \E o \in CmdOutcomes : CreateBranch(o)
     \/ \E o \in CmdOutcomes : RunSubtask(o)
     \/ \E o \in CmdOutcomes : Stage(o)
     \/ FinalStatus(CheckoutStatus)
     \/ \E o \in PushOutcomes : PushPr(o)
     \/ \E o \in CmdOutcomes : CommitLocal(o)
     \/ \E o \in CmdOutcomes : MergeCheckout(o)
     \/ \E o \in CmdOutcomes : Merge(o)
     \/ \E o \in CmdOutcomes : CommitWip(o)
     \/ \E o \in RevParseOutcomes : RevParse(o)
     \/ \E o \in CmdOutcomes : SwitchBack(o)
  /\ UNCHANGED twin

\* The other thread is scheduled: the variables of execute_plan and those
\* kept in twin change places.
Yield ==
  /\ twin.turn = 0
  /\ twin.pc # "idle"
  /\ on_progress' = twin.on_progress
  /\ pc' = twin.pc
  /\ loop_i' = twin.loop_i
  /\ all_success' = twin.all_success
  /\ result' = twin.result
  /\ calls' = twin.calls
  /\ obs' = twin.obs
  /\ twin' = [twin EXCEPT !.on_progress = on_progress, !.pc = pc,
                          !.loop_i = loop_i, !.all_success = all_success,
                          !.result = result, !.calls = calls, !.obs = obs]
  /\ UNCHANGED << args, not_bridge_vars >>

\* POST /execute came in twice for one project with a plan of one subtask.
InitTwoRuns ==
  /\ OrchestratorIdle
  /\ ServicesIdle
  /\ args = [is_self_edit |-> FALSE, auto_pr |-> TRUE, auto_approve |-> FALSE,
             subtasks |-> << "plain" >>]
  /\ on_progress = NoCallback
  /\ pc = "preflight"
  /\ loop_i = 0
  /\ all_success = TRUE
  /\ result = NewExecutionResult
  /\ calls = << >>
  /\ obs = NoObs
  /\ twin = [NoTwin EXCEPT !.pc = "preflight"]

NextTwoRuns ==
  \/ TwoRunsStep
  \/ Yield

SpecTwoRuns == InitTwoRuns /\ [][NextTwoRuns]_vars

\* ------------------------------------------------------------------------
\* Properties
\* ------------------------------------------------------------------------

\* C1: a run reaches done within subtaskCount x (maxRevisions + 1)
\* execute/review iterations or reports Stalled.  Stated for runs without a
\* stop request or budget in which the Reviewer gives documented verdicts
\* only: once that many review passes are over, the run is not back in
\* executing or reviewing unless it reported Stalled.
C1_DoneWithinIterationBound ==
  ( /\ phase \in {"executing", "reviewing"}
    /\ ~stop_event
    /\ budget = NoBudget
    /\ ~undocumented )
  => \/ iterations < Len(subtasks) * (max_revisions + 1)
     \/ \E i \in 1..Len(errors) : errors[i] = "Stalled"

\* C2: every subtask in the ready queue is not approved and has all of its
\* dependencies approved.  Stated for runs in which no batch was skipped and
\* the Reviewer gave documented verdicts only.
C2_ReadyQueueDependenciesApproved ==
  (~skipped /\ ~undocumented) =>
  \A i \in 1..Len(ready_queue) :
    /\ results[ready_queue[i]].review_verdict # "approve"
    /\ SubtaskOf(ready_queue[i]).depends_on \subseteq ApprovedIds(results)

\* C3: an approved subtask stays approved, is in no later ready queue and is
\* never handed to the Executor again.
C3_ApproveIsMonotonic ==
  [][ \A sid \in DOMAIN results :
        results[sid].review_verdict = "approve" =>
          /\ results'[sid].review_verdict = "approve"
          /\ results'[sid].attempts = results[sid].attempts
          /\ results'[sid].output = results[sid].output
          /\ sid \notin Range(ready_queue')
          /\ futures'[sid] \notin {"queued", "running"} ]_vars

\* An approved subtask sits out while another subtask is executed again in a
\* later batch.
C3_Witness ==
  /\ iterations >= 1
  /\ \E s \in DOMAIN results, t \in DOMAIN results :
       /\ results[s].review_verdict = "approve"
       /\ results[s].output = "ok"
       /\ futures[t] = "running"
       /\ results[t].attempts >= 1

\* C4: no subtask's attempts counter exceeds maxRevisions + 1.
C4_AttemptsWithinCap ==
  \A sid \in DOMAIN results : results[sid].attempts <= max_revisions + 1

\* C5: once a batch was skipped because of the stop signal or the budget,
\* the run goes on to synthesis and is never in executing again.
C5_NoBatchAfterSkip == skipped => phase # "executing"

\* C6: a review pass that leaves an empty ready queue while some subtask is
\* not approved ends the run with a Stalled error; the run is not back in
\* executing.
C6_StalledInsteadOfExecuting ==
  ( /\ iterations >= 1
    /\ phase = "executing"
    /\ ~pool_open
    /\ ready_queue = << >>
    /\ ~AllApproved(results) )
  => \E i \in 1..Len(errors) : errors[i] = "Stalled"

\* C7: the review pass starts only when every subtask dispatched in the batch
\* has finished, with an output or with an error.
C7_BarrierBeforeReview ==
  phase = "reviewing" =>
    /\ ~pool_open
    /\ \A s \in AllIds : futures[s] \notin {"queued", "running"}

\* A batch in which one subtask failed and another produced an output is
\* over and up for review.
C7_Witness ==
  /\ phase = "reviewing"
  /\ \E s \in Ids, t \in Ids :
       /\ futures[s] = "done" /\ IsError(results[s].output)
       /\ futures[t] = "done" /\ results[t].output = "ok"

\* C8: at most min(4, batch size) Executor calls are in flight, the pool can
\* always make progress while the batch is unfinished, and the batch ends
\* only with every one of its subtasks executed.
C8_PoolWidth ==
  /\ Cardinality(Running) <= Min(_MAX_PARALLEL_WORKERS, Len(ready_queue))
  /\ (pool_open /\ Queued # {}) =>
       (Running # {} \/ Cardinality(Running) < _MAX_PARALLEL_WORKERS)
  /\ (phase = "reviewing" /\ ~skipped) =>
       \A s \in Ids : futures[s] = "done"

\* The pool is saturated: four calls in flight, a fifth subtask waiting.
C8_Witness ==
  /\ Cardinality(Running) = _MAX_PARALLEL_WORKERS
  /\ Queued # {}

\* C9: when the Executor call of one subtask fails (no output is produced),
\* that subtask gets an error output and verdict redo, no other subtask's
\* record or future changes, the batch goes on, and the batch ends only
\* with every one of its subtasks executed.
C9_IsolatedFailure ==
  [][ /\ \A sid \in Ids :
           ( /\ futures[sid] = "running"
             /\ futures'[sid] = "done"
             /\ results'[sid].attempts = results[sid].attempts )
           => /\ IsError(results'[sid].output)
              /\ results'[sid].review_verdict = "redo"
              /\ \A t \in Ids \ {sid} : /\ results'[t] = results[t]
                                       /\ futures'[t] = futures[t]
              /\ pool_open'
              /\ phase' = "executing"
      /\ (pool_open /\ ~pool_open') =>
           /\ phase' = "reviewing"
           /\ \A s \in Range(ready_queue) : futures[s] = "done" ]_vars

\* A batch is over in which one subtask failed without an attempt being
\* counted and another subtask of the same batch produced its output.
C9_Witness ==
  /\ phase = "reviewing"
  /\ \E s \in Ids, t \in Ids :
       /\ futures[s] = "done" /\ IsError(results[s].output)
       /\ results[s].review_verdict = "redo" /\ results[s].attempts = 0
       /\ futures[t] = "done" /\ results[t].output = "ok"
       /\ results[t].attempts = 1

\* C10: the phase moves only along the edges of the workflow, and a review
\* pass leads to synthesizing exactly when every subtask is approved, and
\* back to executing otherwise.
C10_PhaseOrder ==
  [][ /\ phase' # phase =>
           << phase, phase' >> \in
             { << "intake", "planning" >>, << "planning", "executing" >>,
               << "executing", "reviewing" >>, << "reviewing", "executing" >>,
               << "reviewing", "synthesizing" >>, << "synthesizing", "done" >> }
      /\ phase = "reviewing" /\ phase' # phase =>
           /\ phase' = "synthesizing" <=> AllApproved(results')
           /\ phase' = "executing" <=> ~AllApproved(results') ]_vars

\* A run is done after having gone back from review to executing.
C10_Witness ==
  /\ phase = "done"
  /\ iterations >= 2
  /\ AllApproved(results)

C12_PreflightGateStops ==
  ( \/ obs.health \in {"offline", "rejected"}
    \/ Len(args.subtasks) > MAX_SUBTASKS_PER_EXECUTION
    \/ args.is_self_edit /\ _check_self_edit_safety(args.subtasks) # {}
    \/ obs.dirtyCount > 0 )
  => /\ pc \in {"preflight", "returned"}
     /\ result.branch = ""
     /\ result.success = FALSE
     /\ \A k \in 1..Len(calls) : calls[k].op \in {"health", "git_status"}
     /\ pc = "returned" =>
          result.error =
            IF obs.health # "ok" THEN "offline"
            ELSE IF Len(args.subtasks) > MAX_SUBTASKS_PER_EXECUTION
            THEN "too_many"
            ELSE IF /\ args.is_self_edit
                    /\ _check_self_edit_safety(args.subtasks) # {}
            THEN "safety"
            ELSE "dirty"
     /\ obs.dirtyCount > 0 =>
          result.error = "dirty" /\ result.dirty = obs.dirtyCount

\* Scenario C: the status read reports three dirty files and execute_plan
\* has returned.
C12_Witness ==
  /\ pc = "returned"
  /\ obs.dirtyCount = 3
  /\ result.error = "dirty"
  /\ Called("git_status")

\* C13: for a self-edit project with a subtask description naming a
\* protected path, execute_plan returns success = false with the
\* safety-violation error without having made any Runner call.
C13_SafetyBeforeAnyRunnerCall ==
  ( /\ pc = "returned"
    /\ args.is_self_edit
    /\ _check_self_edit_safety(args.subtasks) # {} )
  => /\ result.success = FALSE
     /\ result.error = "safety"
     /\ calls = << >>

\* C14: once the branch is created, the subtasks are processed one by one in
\* plan order: the result holds one entry per processed subtask in plan
\* order, the editing calls made are exactly those of the processed subtasks
\* that have a description, once each and in plan order, a failed call marks
\* the run as not fully successful, and the loop is left only when every
\* subtask has been processed.
C14_EverySubtaskOnceInOrder ==
  LET sr == result.subtask_results
      IsClaude(c) == c.op = "run_claude"
      HasDescription(k) == args.subtasks[k] # ""
      invoked == SelectSeq([ k \in 1..loop_i |-> k ], HasDescription)
  IN ( pc \notin {"preflight", "git_status", "branch"}
       /\ (pc = "returned" => Called("rev_parse")) )
     => /\ Len(sr) >= loop_i
        /\ \A k \in 1..loop_i : sr[k].id = k
        /\ SelectSeq(calls, IsClaude)
             = [ j \in 1..Len(invoked) |-> Call("run_claude", invoked[j]) ]
        /\ \A k \in 1..loop_i :
             (HasDescription(k) /\ ~sr[k].success) => ~all_success
        /\ pc # "subtask" => loop_i = Len(args.subtasks)

\* The call for the first of two subtasks failed and the second subtask was
\* invoked and succeeded.
C14_Witness ==
  /\ pc = "returned"
  /\ Len(args.subtasks) = 2
  /\ Len(result.subtask_results) >= 2
  /\ args.subtasks[1] # ""
  /\ ~result.subtask_results[1].success
  /\ result.subtask_results[2].success
  /\ \E k \in 1..Len(calls) : calls[k] = Call("run_claude", 2)

\* C15: a returned ExecutionResult that holds an entry recorded as failed
\* (for any reason, an empty description included) has success = false.
C15_FailedEntryFlipsSuccess ==
  pc = "returned" =>
    ( (\E k \in 1..Len(result.subtask_results) :
          ~result.subtask_results[k].success)
      => result.success = FALSE )

\* C16: for a self-edit project, every run that gets to the subtasks runs the
\* test suite once they are processed (before the changes are staged), and a
\* failing test run ends in success = false without push_pr.
C16_SelfEditTestsAlwaysRun ==
  /\ (args.is_self_edit /\ Called("git_add")) => Called("pytest")
  /\ ( /\ pc = "returned"
       /\ \E k \in 1..Len(result.subtask_results) :
            /\ result.subtask_results[k].id = 0
            /\ ~result.subtask_results[k].success )
     => (result.success = FALSE /\ ~Called("push_pr"))

\* C17: push_pr is called exactly in the runs in which every subtask and,
\* for a self-edit, the tests succeeded, auto_pr or auto_approve is set, and
\* the status read after staging reports changed files.
C17_PushIffFullySuccessful ==
  pc = "returned" =>
    ( Called("push_pr")
      <=> /\ Called("git_add")
          /\ \A k \in 1..Len(result.subtask_results) :
               result.subtask_results[k].success
          /\ args.auto_pr \/ args.auto_approve
          /\ Dirty(result) > 0 )

C19_FailedRunLeavesWipCommit ==
  ( /\ pc = "returned"
    /\ Called("git_add")
    /\ \E k \in 1..Len(result.subtask_results) :
         ~result.subtask_results[k].success )
  => /\ \E k \in 1..Len(calls) :
          /\ calls[k].op = "commit_wip"
          /\ \A j \in 1..k : calls[j].op # "rev_parse"
     /\ ~Called("push_pr")
     /\ result.success = FALSE
     /\ result.error = "wip"

\* C20: every run that got as far as creating its branch, a failed creation
\* included, has asked for the switch back to main when it returns.
C20_AlwaysSwitchesBack ==
  (pc = "returned" /\ Called("checkout_b")) => Called("rev_parse")

\* C21: whatever the calls on the Runner do (success, non-zero exit,
\* unreachable, rejected, any other exception), execute_plan returns an
\* ExecutionResult instead of raising, and a returned result whose success
\* is false has a non-empty error.
C21_AlwaysReturnsDescriptiveResult ==
  /\ pc # "raised"
  /\ (pc = "returned" /\ ~result.success) => result.error # ""

\* C22: an exception raised by the on_progress callback never affects the
\* pipeline: with the same arguments and the same answers of the Runner,
\* the call whose callback raises (at one phase or at every phase) has
\* made the same calls on the Runner as the call without a callback each
\* time both have taken as many steps, is where the other is, never ends
\* by raising, and holds the same ExecutionResult.
C22_CallbackExceptionsIgnored ==
  twin.turn = 1 =>
    /\ pc # "raised"
    /\ pc = twin.pc
    /\ calls = twin.calls
    /\ result = twin.result

\* Both calls have returned after the push was made and the pull request
\* failed, and the callback of the first raised when told of the merge.
C22_Witness ==
  /\ twin.turn = 1
  /\ pc = "returned"
  /\ twin.pc = "returned"
  /\ on_progress.set
  /\ "merging" \in on_progress.raises
  /\ ~twin.on_progress.set
  /\ obs.push = "pr_creation_failed"
  /\ Called("merge")

\* C23: for every interval <= max_interval the poller is made with and
\* every sequence of health check outcomes, current_interval lies between
\* base_interval and max_interval in every state of the poller, the one it
\* is made in included, and equals base_interval right after a successful
\* health check.
C23_IntervalWithinConfiguredRange ==
  /\ poller.base_interval <= runner_state.current_interval
  /\ runner_state.current_interval <= poller.max_interval
  /\ last_health = "ok" =>
       runner_state.current_interval = poller.base_interval

\* C24: after k >= 1 failed health checks in a row current_interval is
\* min(base_interval * 2^(k-1), max_interval) (so it does not shrink from
\* one failure to the next and never exceeds max_interval); the next
\* successful check sets it back to base_interval and the failure counter
\* to 0.
C24_ExponentialBackoff ==
  LET k == runner_state.consecutive_failures
      base == poller.base_interval
      max == poller.max_interval
      Pow2[n \in 0..9] == IF n = 0 THEN 1 ELSE 2 * Pow2[n - 1]
      \* base >= 1 and max_interval <= 300 < 2^9
      expected == IF k - 1 >= 9 THEN max
                  ELSE Min(base * Pow2[k - 1], max)
  IN /\ k >= 1 => runner_state.current_interval = expected
     /\ last_health = "ok" =>
          /\ runner_state.current_interval = base
          /\ k = 0

\* Three failures in a row with base 10: the interval is 40 (after 10 and
\* 20), below the cap.
C24_Witness ==
  /\ poller.base_interval = 10
  /\ poller.max_interval = 300
  /\ runner_state.consecutive_failures = 3
  /\ runner_state.current_interval = 40
  /\ last_health = "failed"

\* C25: only the poller asks the Runner for its health: the gate of
\* execute_plan and the /runner routes make no health call of their own,
\* and a forwarding route that sees the cached state offline answers 503
\* without any call on the Runner.
C25_HealthOnlyByPoller ==
  /\ ~Called("health")
  /\ \A k \in 1..Len(proxy.sent) : proxy.sent[k].op # "health"
  /\ (proxy.route \in ProxyRoutes /\ ~proxy.online) =>
       /\ proxy.status = 503
       /\ proxy.sent = << >>

\* C26: a call of a client method that fails ends in one of two ways:
\* RunnerOfflineError when the connection fails or times out, RunnerError
\* with the HTTP status and the host's detail when the host answers with a
\* status >= 400; an answer with a status < 400 raises neither, and no
\* call ends in any other failure.
C26_TwoFailureKinds ==
  client_result.kind # "none" =>
    /\ client_result.kind \in {"returned", "RunnerOfflineError", "RunnerError"}
    /\ client_call.transport # "response" =>
         client_result.kind = "RunnerOfflineError"
    /\ (client_call.transport = "response" /\ client_call.status >= 400) =>
         /\ client_result.kind = "RunnerError"
         /\ client_result.status_code = client_call.status
         /\ client_result.detail =
              (IF client_call.body = "detail_json" THEN "detail" ELSE "text")
    /\ (client_call.transport = "response" /\ client_call.status < 400) =>
         client_result.kind \notin {"RunnerOfflineError", "RunnerError"}

\* C27: stop_run is idempotent and tells whether the run was found: called
\* with the id of a run that is registered (started and not yet ended) it
\* returns True and leaves the signal of that run set, however often it is
\* called; called with an id that was never started or is already ended
\* it returns False; it never changes a mapping or the signal of another
\* run.
C27_StopIdempotentReportsFound ==
  [][ stop_call' # stop_call =>
        LET id == stop_call'.id
        IN /\ _active_runs' = _active_runs
           /\ \A r \in RunIds \ {id} : signal'[r] = signal[r]
           /\ IF stop_call.stage = "found"
              THEN \* the call goes on after finding the run registered
                   /\ id = stop_call.id
                   /\ stop_call'.stage = "returned"
                   /\ stop_call'.ret
                   /\ signal'[id]
              ELSE \* the call looks the id up
                   /\ signal' = signal
                   /\ IF id \in _active_runs
                      THEN stop_call'.stage = "found"
                      ELSE /\ stop_call'.stage = "returned"
                           /\ ~stop_call'.ret
     ]_vars

\* A second stop_run of the same registered run has returned True, the
\* signal set by the first is still set.
C27_Witness ==
  /\ stop_call.stage = "returned"
  /\ stop_call.ret
  /\ stop_call.again
  /\ stop_call.id \in _active_runs
  /\ signal[stop_call.id]
  /\ \E r \in RunIds \ {stop_call.id} : r \in minted /\ ~signal[r]

\* C28 as stated: a run is registered from start_run until it is ended or
\* stopped: after end_run(id), and after stop_run(id), get_stop_event(id)
\* returns None.
C28_AbsentAfterEndOrStop ==
  \A id \in run_log.ended \cup run_log.stopped : get_stop_event(id) = NoRun

\* C28, amended: a run is registered from start_run until end_run: an id
\* start_run returned is absent from the registry (get_stop_event returns
\* None) exactly when end_run was called with it; stop_run sets the signal
\* of the run and leaves the id registered.
C28_RegisteredUntilEnd ==
  /\ \A id \in minted :
       id \in run_log.ended <=> get_stop_event(id) = NoRun
  /\ \A id \in run_log.stopped : signal[id]

\* One run was stopped and is still registered with its signal set,
\* another was ended and is gone.
C28_Witness ==
  \E a, b \in minted :
    /\ a \in run_log.stopped
    /\ a \notin run_log.ended
    /\ get_stop_event(a) = a
    /\ signal[a]
    /\ b \in run_log.ended
    /\ get_stop_event(b) = NoRun

\* C29: validate_command raises exactly for the commands of the documented
\* classes and accepts every other one: a "git push" to main or master
\* (one of the refspecs after the remote has main or master as its
\* destination), a "git merge" that names main or master, a destructive
\* file system pattern, a deployment command; a push or a merge of a
\* feature branch is accepted.
C29_BlocksExactlyDocumentedClasses ==
  (host_request.route = "cmd" /\ host_response.status # 0) =>
    LET cmd == host_request.command
        IsGit(verb) == Len(cmd) >= 2 /\ cmd[1] = "git" /\ cmd[2] = verb
        rest == SubSeq(cmd, 3, Len(cmd))
        IsOption(w) == w \in {"-u", "--prod"}
        operands == SelectSeq(rest, LAMBDA w : ~IsOption(w))
        ToProtected(w) == w \in {"main", "master", "HEAD:main"}
        push == /\ IsGit("push")
                /\ \E k \in 2..Len(operands) : ToProtected(operands[k])
        merge == /\ IsGit("merge")
                 /\ \E k \in 1..Len(operands) :
                      operands[k] \in {"main", "master"}
        documented ==
          push \/ merge \/ _DESTRUCTIVE_FS(cmd) \/ _DEPLOY(cmd)
    IN (validate_command(cmd) # "") <=> documented

\* C30: the runner's endpoints validate before they act: POST /cmd with a
\* command validate_command blocks, and POST /git/push-pr with the branch
\* main or master (in any case, with or without surrounding white space),
\* are answered with status 400 before the project is resolved and before
\* any subprocess or git operation is run.
C30_ValidatedBeforeActing ==
  host_response.status # 0 =>
    /\ (host_request.route = "cmd"
        /\ validate_command(host_request.command) # "") =>
         /\ host_response.status = 400
         /\ host_response.effects = << >>
    /\ (host_request.route = "push_pr"
        /\ host_request.branch.name \in {"main", "master"}) =>
         /\ host_response.status = 400
         /\ host_response.effects = << >>

\* A blocked command for a project the runner does not know was answered
\* with 400, not with the 404 of the project lookup.
C30_Witness ==
  /\ host_request.route = "cmd"
  /\ validate_command(host_request.command) = "push"
  /\ ~host_request.project_known
  /\ host_response.status = 400
  /\ host_response.effects = << >>

\* C31: with a secret configured, a request whose X-Runner-Token header is
\* missing or differs from the secret is answered 401 and no endpoint is
\* reached, and a request with the secret is served by its endpoint; a
\* request without the header reaches an endpoint only when no secret is
\* configured.
C31_TokenGate ==
  host_response.status # 0 =>
    LET secret == auth.runner_token
        h == auth.header
    IN  /\ (secret # "" /\ (~h.present \/ h.value # secret)) =>
             /\ host_response = HostResponse(401, << >>)
             /\ ~auth.called_next
        /\ (secret # "" /\ h.present /\ h.value = secret) =>
             /\ auth.called_next
             /\ host_response = call_next(host_request, TRUE)
                \/ host_response = call_next(host_request, FALSE)
        /\ (~h.present /\ auth.called_next) => secret = ""

\* A request without the header was turned away by a runner that has a
\* secret.
C31_Witness ==
  /\ auth.runner_token = "s3cret"
  /\ ~auth.header.present
  /\ host_response.status = 401
  /\ ~auth.called_next

\* C32: in a review pass, a subtask whose output is empty or an error gets
\* verdict redo and a place in the new ready queue while its attempts are
\* below max_revisions, and verdict approve once they have reached it; the
\* Reviewer is called only for subtasks whose output is neither empty nor
\* an error and whose verdict is not approve already.
C32_UnusableOutputRedoneUntilCap ==
  [][ iterations' # iterations =>
        /\ \A sid \in DOMAIN results :
             (results[sid].output = "" \/ IsError(results[sid].output)) =>
               IF results[sid].attempts < max_revisions
               THEN /\ results'[sid].review_verdict = "redo"
                    /\ sid \in Range(ready_queue')
               ELSE results'[sid].review_verdict = "approve"
        /\ \A sid \in reviewed' :
             /\ results[sid].output # ""
             /\ ~IsError(results[sid].output)
             /\ results[sid].review_verdict # "approve" ]_vars

\* A review pass has force-approved a subtask whose output was still
\* unusable after max_revisions attempts, and called the Reviewer for
\* another one.
C32_Witness ==
  /\ iterations >= 1
  /\ phase \in {"executing", "synthesizing"}
  /\ reviewed # {}
  /\ \E sid \in DOMAIN results :
       /\ results[sid].output = "" \/ IsError(results[sid].output)
       /\ results[sid].attempts >= max_revisions
       /\ results[sid].review_verdict = "approve"
       /\ sid \notin reviewed

\* C33: a batch that starts with the stop signal set or with a remaining
\* budget <= 0 dispatches nothing to the Executor and leaves every
\* subtask's output, verdict, feedback and attempts as they were; a stop
\* signal set while a batch is in flight changes nothing in the pool, and
\* the batch ends only when every call dispatched in it has returned.
C33_StopOnlyAtBatchStart ==
  [][ /\ ( /\ phase = "executing"
           /\ ~pool_open
           /\ stop_event \/ (budget # NoBudget /\ budget <= 0) ) =>
           /\ results' = results
           /\ ~pool_open'
           /\ \A s \in AllIds : futures'[s] \notin {"queued", "running"}
      /\ (pool_open /\ stop_event' # stop_event) =>
           /\ pool_open'
           /\ futures' = futures
           /\ results' = results
      /\ (pool_open /\ ~pool_open') =>
           \A s \in Range(ready_queue) :
             s \in DOMAIN results => futures[s] = "done" ]_vars

\* A batch was skipped on the stop signal after an earlier batch had run:
\* the subtask it would have dispatched is untouched.
C33_Witness ==
  /\ phase = "reviewing"
  /\ skipped
  /\ stop_event
  /\ \E s \in DOMAIN results, t \in DOMAIN results :
       /\ results[s].attempts >= 1
       /\ results[t].output = ""
       /\ results[t].attempts = 0

\* C34: when the push or the pull request has failed and execute_plan
\* returns success = true for a run whose status after staging showed
\* changed files, the changes are in a commit (made by the push step or by
\* the local commit) that was merged into main, the checkout of main and
\* the merge having ended with exit code 0; it does not return success =
\* true with an empty error after push, local commit and merge all failed.
C34_FailedPushStillCommitted ==
  ( /\ pc = "returned"
    /\ obs.push \notin {"none", "ok"}
    /\ result.success
    /\ result.dirty > 0 ) =>
    /\ obs.push \in {"pr_creation_failed", "gh_in_text"}
       \/ obs.commit = "exit0"
    /\ obs.checkout = "exit0"
    /\ obs.merge_exit = "exit0"

\* C39: the branch of an ExecutionResult is marked as merged to main only
\* if the checkout of main and the merge of the feature branch both ended
\* with exit code 0.
C39_MergedOnlyAfterCleanMerge ==
  result.branch = "feature_merged" =>
    /\ obs.checkout = "exit0"
    /\ obs.merge_exit = "exit0"

\* C40: while streamed runs overlap, a request to the stop endpoint made
\* when some registered run is in flight finds an in-flight run and sets
\* its stop signal, and after the end of one run a stop request still
\* reaches an in-flight run if there is one.
C40_InFlightRunsStoppable ==
  [][ /\ ( /\ stop_call' # stop_call
           /\ stop_call.stage # "found"
           /\ _active_runs # {} ) =>
           /\ stop_call'.stage = "found"
           /\ stop_call'.id \in _active_runs
      /\ (stop_call.stage = "found" /\ stop_call' # stop_call) =>
           signal'[stop_call.id]
      /\ (_active_runs' # _active_runs /\ _active_runs' # {}) =>
           current_run_id' \in _active_runs' ]_vars

\* C35: while the poller is running its task is alive (checking or
\* sleeping) whatever the health checks did, and if the poller stays
\* running and from some point on no health check fails, RunnerState.online
\* becomes true with consecutive_failures and reconnect_attempts at 0.
C35_PollLoopPerpetual ==
  /\ [](poller._running => poller.task \in {"checking", "sleeping"})
  /\ ( /\ <>[](poller._running)
       /\ <>[][runner_state'.consecutive_failures
                 <= runner_state.consecutive_failures]_vars )
     => <>( /\ runner_state.online
            /\ runner_state.consecutive_failures = 0
            /\ runner_state.reconnect_attempts = 0 )

\* C36: two calls of execute_plan for one project do not exclude each
\* other: whatever position the other call is in, a call that has not
\* returned can take its next step.
C36_NoMutualExclusion ==
  pc \notin {"returned", "raised"} => ENABLED TwoRunsStep

\* Both calls have passed the clean-tree check and created their branch,
\* one has run its editing session and staged, the other is in its own.
C36_Witness ==
  /\ pc = "final_status"
  /\ twin.pc = "subtask"
  /\ Called("git_add")
  /\ \E k \in 1..Len(twin.calls) : twin.calls[k].op = "checkout_b"
  /\ obs.dirtyCount = 0
  /\ twin.obs.dirtyCount = 0

\* C37: a review pass in which the Reviewer answers only approve, revise or
\* redo leaves every subtask approved or a ready queue that is not empty.
C37_ReviewLeavesWork ==
  [][ ( /\ iterations' # iterations
        /\ \A sid \in DOMAIN results' :
             results'[sid].review_verdict \in {"approve", "revise", "redo"} )
      => \/ \A sid \in DOMAIN results' :
              results'[sid].review_verdict = "approve"
         \/ ready_queue' # << >> ]_vars

\* A review pass with documented verdicts only has sent one subtask back
\* for revision while another is approved.
C37_Witness ==
  /\ iterations >= 1
  /\ phase = "executing"
  /\ ~pool_open
  /\ ~undocumented
  /\ reviewed # {}
  /\ ready_queue # << >>
  /\ \E s \in DOMAIN results, t \in DOMAIN results :
       /\ results[s].review_verdict = "approve"
       /\ results[t].review_verdict = "revise"

\* C38: every dispatch of a subtask to the Executor adds exactly one to the
\* subtask's attempts counter, whether the call returns an output, raises,
\* or no agent exists for the subtask's capability tag.
C38_AttemptsCountDispatches ==
  [][ \A sid \in DOMAIN results :
        (sid \in DOMAIN results' /\ futures[sid] = "running"
                                 /\ futures'[sid] = "done")
          => results'[sid].attempts = results[sid].attempts + 1 ]_vars

====
